---- MODULE Spec2Model ----
(***************************************************************************)
(* The agent loop of packages/ai/main.ts and the browser tools of          *)
(* packages/tools/browser.ts it dispatches to.  The language model and the *)
(* browser are the environment: every response, every page event and every *)
(* detection pass is a nondeterministic input.                             *)
(***************************************************************************)
EXTENDS Integers, Sequences, FiniteSets, TLC

VARIABLES
    pc,                    \* position of main.ts in its try/catch/finally
    chat,                  \* the transcript (Chat) of main.ts
    round,                 \* the loop counter of the agent loop
    content,               \* result.content of the current round
    toolCall,              \* parseToolCall(content) of the current round
    toolResult,            \* what executeTool returned in the current round
    error,                 \* the exception that reached the catch block
    exitPath,              \* how the loop was left
    page,                  \* main.ts: the active page
    lastDetectedElements,  \* browser.ts: module-level state of clickByLabel
    cbl,                   \* the frame of a clickByLabel call in progress
    numPages,              \* pages of the browser context
    browserAlive,          \* the browser process is running
    navigating,            \* a navigation of the active page is under way
    browserClosed,         \* browser.close() was called
    ops,                   \* history: browser operations of the current dispatch
    nRequests,             \* history: calls of model.respond
    nDispatch,             \* history: calls of executeTool
    request,               \* history: the transcript handed to the last model.respond
    shown,                 \* history: the last element list returned to the model
    handoff,               \* history: the last new page a clickByLabel result carried
    nResponses,            \* history: calls of model.respond that have settled
    nSettled,              \* history: calls of executeTool that have settled
    dpc,                   \* position of a detection pass looked at on its own
    dom,                   \* the elements the selectors of a pass match on the page
    detected,              \* what the pass returned
    svgParts,              \* the overlay takeLabeledScreenshot draws for the pass
    fn,                    \* the function of an application looked at on its own
    fpc,                   \* position of that application
    fin,                   \* its input
    fout,                  \* what it returned
    argv,                  \* process.argv[2]
    boot,                  \* history: what the module has done before the try block
    exitCode               \* the status of process.exit, <<>> while none was called

vars == <<pc, chat, round, content, toolCall, toolResult, error, exitPath, page,
          lastDetectedElements, cbl, numPages, browserAlive, navigating, browserClosed,
          ops, nRequests, nDispatch, request, shown, handoff, nResponses, nSettled,
          dpc, dom, detected, svgParts, fn, fpc, fin, fout, argv, boot, exitCode>>

\* the variables of a function application looked at on its own
pureVars == <<fn, fpc, fin, fout>>

\* the variables of the start of the process
startVars == <<argv, boot, exitCode>>

\* the variables of a detection pass or a function application looked at on its
\* own, and of the start
detectVars == <<dpc, dom, detected, svgParts, pureVars, startVars>>

(***************************************************************************)
(* Bounds of the model.                                                    *)
(***************************************************************************)
\* rounds of the agent loop (main.ts sets 100)
maxRounds == 3
\* elements a detection pass returns in the loop model
MaxElems == 1
\* pages the browser context can hold
MaxPages == 3

(***************************************************************************)
(* JavaScript values of the args object: a type tag with a string or a     *)
(* number.                                                                 *)
(***************************************************************************)
Num(n) == [t |-> "number", s |-> "", n |-> n]
Str(s) == [t |-> "string", s |-> s, n |-> 0]
Undef == [t |-> "undefined", s |-> "", n |-> 0]

IsNumber(v) == v.t = "number"
IsString(v) == v.t = "string"

ArgNames == {"url", "label", "x", "y", "direction", "amount", "selector", "text", "key"}

\* args: {}
NoArgs == [a \in ArgNames |-> Undef]

Args1(a, v) == [NoArgs EXCEPT ![a] = v]
Args2(a, v, b, w) == [NoArgs EXCEPT ![a] = v, ![b] = w]

(***************************************************************************)
(* A model response is a sequence of segments: prose without braces, prose *)
(* with a stray brace, or the text of one object.  Of an object the model  *)
(* keeps what the two patterns look at (the "tool" value that the text     *)
(* shows first, and whether an "args" object follows it directly) and what *)
(* JSON.parse makes of the text (whether it parses, and the tool and args  *)
(* of the parsed object; a key written twice takes its last value).        *)
(***************************************************************************)
NoParse == [tool |-> Undef, truthy |-> FALSE, args |-> NoArgs]

Prose == [k |-> "prose", tool |-> Undef, hasArgs |-> FALSE, args |-> NoArgs,
          valid |-> FALSE, parsed |-> NoParse]
\* prose that holds an opening or a closing brace
Braces == [Prose EXCEPT !.k = "braces"]
\* {"tool": tool, "args": {...}}
Obj(tool, args) ==
    [k |-> "object", tool |-> tool, hasArgs |-> TRUE, args |-> args,
     valid |-> TRUE, parsed |-> [tool |-> tool, truthy |-> TRUE, args |-> args]]
\* {"tool": tool}
ObjNoArgs(tool) ==
    [k |-> "object", tool |-> tool, hasArgs |-> FALSE, args |-> NoArgs,
     valid |-> TRUE, parsed |-> [tool |-> tool, truthy |-> FALSE, args |-> NoArgs]]
\* the text of seg with a syntax error, as a trailing comma
Malformed(seg) == [seg EXCEPT !.valid = FALSE, !.parsed = NoParse]
\* the text of seg with a second "tool" key of value v before its last brace
Shadowed(seg, v) == [seg EXCEPT !.parsed.tool = v]

\* null
NoCall == [tool |-> "", args |-> NoArgs]

\* /\{[^{}]*"tool"\s*:\s*"[^"]+"\s*,\s*"args"\s*:\s*\{[^{}]*\}[^{}]*\}/
StrictPattern(seg) ==
    /\ seg.k = "object"
    /\ IsString(seg.tool) /\ seg.tool.s # ""
    /\ seg.hasArgs

\* /\{[^{}]*"tool"\s*:\s*"[^"]+"[^{}]*\}/
SimplePattern(seg) ==
    /\ seg.k = "object"
    /\ IsString(seg.tool) /\ seg.tool.s # ""
    /\ ~seg.hasArgs

\* String.prototype.match without the g flag: the leftmost of the places where
\* the pattern matches, 0 for null
Match(hits) ==
    IF hits # {}
    THEN CHOOSE i \in hits : \A j \in hits : i <= j
    ELSE 0

parsedAction_NoArgs(seg) ==
    IF seg.valid /\ IsString(seg.parsed.tool) /\ seg.parsed.tool.s # ""
    THEN [tool |-> seg.parsed.tool.s, args |-> NoArgs]
    ELSE NoCall

parsedAction_Unchecked(seg) ==
    [tool |-> seg.tool.s, args |-> IF seg.hasArgs THEN seg.args ELSE NoArgs]

\* try { parsed = JSON.parse(match[0]); if (parsed.tool && typeof parsed.tool ===
\* "string") return { tool: parsed.tool, args: parsed.args || {} } } catch {};
\* every other way out ends in return null
parsedAction(seg) ==
    IF seg.valid /\ IsString(seg.parsed.tool) /\ seg.parsed.tool.s # ""
    THEN [tool |-> seg.parsed.tool.s,
          args |-> IF seg.parsed.truthy THEN seg.parsed.args ELSE NoArgs]
    ELSE NoCall

parseToolCall(text) ==
    LET jsonMatch == Match({i \in 1..Len(text) : StrictPattern(text[i])})
        simpleMatch == Match({i \in 1..Len(text) : SimplePattern(text[i])})
    IN  IF jsonMatch = 0
        THEN IF simpleMatch = 0
             THEN NoCall
             ELSE parsedAction(text[simpleMatch])
        ELSE parsedAction(text[jsonMatch])

(***************************************************************************)
(* The responses the model gives in the loop model: every tool with        *)
(* well-typed and with wrongly typed or missing arguments, an unhandled    *)
(* tool name, and texts that hold no action.                               *)
(***************************************************************************)
Actions ==
    { Obj(Str("navigate"), Args1("url", Str("https://x"))),
      Obj(Str("navigate"), Args1("url", Str("not a url"))),
      Obj(Str("labeledScreenshot"), NoArgs),
      Obj(Str("screenshot"), NoArgs),
      Obj(Str("getContents"), NoArgs),
      Obj(Str("getContents"), Args1("selector", Str("#main"))),
      Obj(Str("getContents"), Args1("selector", Num(7))),
      Obj(Str("clickByLabel"), Args1("label", Num(1))),
      Obj(Str("clickByLabel"), Args1("label", Num(2))),
      Obj(Str("clickByLabel"), Args1("label", Num(99))),
      Obj(Str("clickByLabel"), Args1("label", Str("five"))),
      Obj(Str("clickByLabel"), NoArgs),
      Obj(Str("click"), Args2("x", Num(448), "y", Num(300))),
      Obj(Str("click"), Args1("x", Num(448))),
      Obj(Str("scroll"), Args1("direction", Str("down"))),
      Obj(Str("scroll"), Args2("direction", Str("up"), "amount", Num(200))),
      Obj(Str("scroll"), Args1("direction", Str("sideways"))),
      Obj(Str("scroll"), Args2("direction", Str("down"), "selector", Str("#list"))),
      Obj(Str("type"), Args2("selector", Str("#q"), "text", Str("cats"))),
      Obj(Str("type"), Args1("text", Str("cats"))),
      Obj(Str("keyboard"), Args1("text", Str("cats"))),
      Obj(Str("keyboard"), NoArgs),
      Obj(Str("press"), Args1("key", Str("Enter"))),
      Obj(Str("press"), NoArgs),
      Obj(Str("reload"), NoArgs),
      ObjNoArgs(Str("reload")),
      Obj(Str("fly"), NoArgs) }

Responses ==
    {<<Prose>>, <<>>, <<Obj(Num(5), NoArgs)>>, <<ObjNoArgs(Str(""))>>}
        \cup {<<a>> : a \in Actions}
        \cup {<<Prose, Obj(Str("labeledScreenshot"), NoArgs), Prose>>}

(***************************************************************************)
(* Elements and detection passes.                                          *)
(***************************************************************************)
ElemTypes == {"link", "button"}

NoElement == [label |-> 0, type |-> ""]

\* what page.evaluate hands back in a pass of the loop: the kept elements, in order
DetectInputs == UNION {[1..n -> {[type |-> t] : t \in ElemTypes}] : n \in 0..MaxElems}

(***************************************************************************)
(* The callback of page.evaluate in detectClickableElements.  Lengths are  *)
(* in half pixels, so that a rectangle can lie between two pixels; a text  *)
(* is a sequence of characters.                                            *)
(***************************************************************************)
\* the matched elements of one page, and the passes of more than 30 elements
MaxDom == 3
MaxLargeDom == 32

\* browser.newPage({ viewport: { width: 896, height: 896 } })
Viewport == 896
\* rect.width < 10 || rect.height < 10
MinSize == 10
\* Math.abs(a.y - b.y) < 20
RowHeight == 20
\* results.slice(0, 30)
SliceLimit == 30
\* substring(0, 50), text.length === 50
TextLimit == 50

Px(n) == 2 * n

\* Math.round of a length in half pixels
Round(h) == (h + 1) \div 2

Abs(n) == IF n < 0 THEN 0 - n ELSE n

Min(a, b) == IF a < b THEN a ELSE b

Chars(n, c) == [i \in 1..n |-> c]

\* a source text: n letters with blanks before and after
Text(lead, n, trail) == Chars(lead, " ") \o Chars(n, "a") \o Chars(trail, " ")

\* String.prototype.trim
Trim(text) ==
    LET letters == {i \in 1..Len(text) : text[i] # " "}
    IN  IF letters = {} THEN <<>>
        ELSE SubSeq(text, CHOOSE i \in letters : \A j \in letters : i <= j,
                          CHOOSE i \in letters : \A j \in letters : j <= i)

MatchedElement(tag, inputType, left, top, width, height, hidden, text) ==
    [tag |-> tag, inputType |-> inputType, left |-> left, top |-> top,
     width |-> width, height |-> height, hidden |-> hidden, text |-> text]

\* the elements a page is made of in the passes looked at
Palette ==
    { MatchedElement("a", "", Px(5), Px(0), Px(10), Px(10), FALSE, Text(1, 50, 2)),
      MatchedElement("button", "", Px(3), Px(15), Px(40), Px(20), FALSE, Text(0, 49, 0)),
      MatchedElement("input", "text", Px(1), Px(30), Px(100), Px(20), FALSE,
                     Text(0, 51, 1)),
      MatchedElement("div", "", Px(300), Px(0), Px(50), Px(50), FALSE, Text(0, 3, 0)),
      MatchedElement("span", "", Px(10), Px(100), Px(50), Px(20), FALSE, Text(2, 0, 0)),
      MatchedElement("select", "", Px(200), Px(200), Px(50), Px(20), TRUE, Text(0, 3, 0)),
      MatchedElement("textarea", "", Px(200), Px(300), Px(10) - 1, Px(40), FALSE,
                     Text(0, 3, 0)),
      MatchedElement("a", "", 0 - 1, Px(400), Px(50), Px(20), FALSE, Text(0, 3, 0)),
      MatchedElement("button", "", Px(890), Px(500), Px(10), Px(10), FALSE,
                     Text(0, 3, 0)),
      MatchedElement("input", "checkbox", Px(886), Px(886), Px(10), Px(10), FALSE,
                     Text(0, 0, 0)) }

\* a page of n buttons in one row, the rightmost first in the document
LargeDom(n) ==
    [i \in 1..n |-> MatchedElement("button", "", Px(12 * (n + 1 - i)), Px(40), Px(10),
                                   Px(10), FALSE, Text(0, 3, 0))]

DomInputs ==
    UNION {[1..n -> Palette] : n \in 0..MaxDom}
        \cup {LargeDom(n) : n \in (SliceLimit - 1)..MaxLargeDom}

\* Skip elements that are not visible or too small
Skipped_SizeInclusive(el) ==
    \/ el.width <= Px(MinSize)
    \/ el.height <= Px(MinSize)
    \/ el.top < 0
    \/ el.left < 0
    \/ el.top + el.height > Px(Viewport)
    \/ el.left + el.width > Px(Viewport)

Skipped(el) ==
    \/ el.width < Px(MinSize)
    \/ el.height < Px(MinSize)
    \/ el.top < 0
    \/ el.left < 0
    \/ el.top + el.height > Px(Viewport)
    \/ el.left + el.width > Px(Viewport)

\* Skip elements with no visible area: display none, visibility hidden, opacity 0
Invisible(el) == el.hidden

\* let type = tagName; input -> `input[${type}]`; a -> "link"
elementType(el) ==
    IF el.tag = "input" THEN "input[" \o el.inputType \o "]"
    ELSE IF el.tag = "a" THEN "link"
    ELSE el.tag

\* text = text.trim().substring(0, 50); if (text.length === 50) text += "..."
elementText(source) ==
    LET trimmed == Trim(source)
        cut == SubSeq(trimmed, 1, Min(Len(trimmed), TextLimit))
    IN  IF Len(cut) = TextLimit THEN cut \o Chars(3, ".") ELSE cut

\* results.push({type, text, x, y, width, height}); src is history: the place of
\* the element in the document
Pushed(dom_, i) ==
    [type |-> elementType(dom_[i]), text |-> elementText(dom_[i].text),
     x |-> Round(dom_[i].left), y |-> Round(dom_[i].top),
     width |-> Round(dom_[i].width), height |-> Round(dom_[i].height), src |-> i]

\* allElements.forEach: the elements that are not skipped, in document order
RECURSIVE forEachElement(_, _)
forEachElement(dom_, n) ==
    IF n = 0 THEN <<>>
    ELSE IF Skipped(dom_[n]) \/ Invisible(dom_[n])
    THEN forEachElement(dom_, n - 1)
    ELSE Append(forEachElement(dom_, n - 1), Pushed(dom_, n))

compareByPosition_YOnly(a, b) == a.y - b.y

\* the comparator of results.sort
compareByPosition(a, b) ==
    IF Abs(a.y - b.y) < RowHeight THEN a.x - b.x ELSE a.y - b.y

\* the comparator is a consistent one for these elements (ECMAScript, Array.prototype.sort)
Consistent(results) ==
    \A i, j, k \in DOMAIN results :
        LET ab == compareByPosition(results[i], results[j])
            bc == compareByPosition(results[j], results[k])
            ac == compareByPosition(results[i], results[k])
        IN  /\ (ab < 0 /\ bc < 0) => ac < 0
            /\ (ab = 0 /\ bc = 0) => ac = 0

\* one step of a stable insertion: e goes behind the elements that are not after it
Insert(sorted, e) ==
    LET before == Cardinality({i \in DOMAIN sorted : compareByPosition(sorted[i], e) <= 0})
    IN  SubSeq(sorted, 1, before) \o <<e>> \o SubSeq(sorted, before + 1, Len(sorted))

RECURSIVE StableSort(_, _)
StableSort(results, n) ==
    IF n = 0 THEN <<>> ELSE Insert(StableSort(results, n - 1), results[n])

\* results.sort(comparator): the sorted order when the comparator is consistent, an
\* implementation-defined order of the same elements when it is not
sortOutcomes(results) ==
    IF Consistent(results)
    THEN {StableSort(results, Len(results))}
    ELSE {[i \in DOMAIN results |-> results[p[i]]] : p \in Permutations(DOMAIN results)}

slice_NoLimit(results) == results

\* results.slice(0, 30)
slice(results) == SubSeq(results, 1, Min(Len(results), SliceLimit))

\* what page.evaluate can hand back for the matched elements of a page
evaluateOutcomes(dom_) ==
    {slice(sorted) : sorted \in sortOutcomes(forEachElement(dom_, Len(dom_)))}

detectClickableElements_ZeroBased(found) ==
    [i \in 1..Len(found) |-> [label |-> i - 1] @@ found[i]]

\* elements.map((el, index) => ({...el, label: index + 1}))
detectClickableElements(found) ==
    [i \in 1..Len(found) |-> [label |-> i] @@ found[i]]

\* a pass that throws: the execution context was destroyed by a navigation
ContextDestroyed == [out |-> "ContextDestroyed", elements |-> <<>>]
\* a pass that throws because the browser process is gone
BrowserGone == [out |-> "BrowserFailure", elements |-> <<>>]

\* the outcomes of takeLabeledScreenshot on a page: a pass throws only when the
\* browser is gone or the page is navigating
takeLabeledScreenshot(alive, nav) ==
    IF alive
    THEN (IF nav THEN {ContextDestroyed} ELSE {})
            \cup {[out |-> "ok", elements |-> detectClickableElements(f)] : f \in DetectInputs}
    ELSE {BrowserGone}

\* String.prototype.startsWith
startsWith(s, prefix) == Len(s) >= Len(prefix) /\ SubSeq(s, 1, Len(prefix)) = prefix

getColorIndicator_ListedTypes(type) ==
    IF type = "link" THEN "blue"
    ELSE IF \/ type \in {"input[text]", "input[search]", "input[email]",
                         "input[password]", "input[button]", "input[submit]"}
            \/ type = "textarea" \/ type = "select"
    THEN "green"
    ELSE IF type = "button" THEN "orange"
    ELSE "purple"

\* the emoji of a kind, by the name of its color
getColorIndicator(type) ==
    IF type = "link" THEN "blue"
    ELSE IF startsWith(type, "input[") \/ type = "textarea" \/ type = "select"
    THEN "green"
    ELSE IF type = "button" THEN "orange"
    ELSE "purple"

formatElementList(elements) ==
    [i \in 1..Len(elements) |->
        [color |-> getColorIndicator(elements[i].type),
         label |-> elements[i].label,
         type |-> elements[i].type]]

\* lastDetectedElements.find((el) => el.label === label)
Find(elements, label) ==
    IF \E i \in 1..Len(elements) : elements[i].label = label
    THEN elements[CHOOSE i \in 1..Len(elements) :
                    /\ elements[i].label = label
                    /\ \A j \in 1..(i - 1) : elements[j].label # label]
    ELSE NoElement

\* the value lastDetectedElements takes
setLastDetectedElements(elements) == elements

(***************************************************************************)
(* Pages, browser operations, results and turns.                           *)
(***************************************************************************)
NoPage == -1

\* a call on a page, with what it ended in and, for OpArg, its argument
Op(op, p, out) == [op |-> op, page |-> p, out |-> out, arg |-> <<>>]

OpArg(op, p, out, arg) == [op |-> op, page |-> p, out |-> out, arg |-> arg]

NoFrame == [label |-> 0, element |-> NoElement, armed |-> FALSE, clicked |-> FALSE,
            opened |-> FALSE, newPage |-> NoPage, navigated |-> FALSE,
            navigationResult |-> FALSE, retry |-> 0, events |-> <<>>]

\* capture says which capture the image is: none, "plain", "indicator" or "labeled";
\* at holds the coordinates a message reports
NoResult == [head |-> "", detail |-> "", labels |-> <<>>, listed |-> FALSE,
             elementList |-> <<>>, image |-> FALSE, capture |-> "", at |-> <<>>]

\* a result without an image: `${head}${detail}`
TextResult(head, detail) ==
    [head |-> head, detail |-> detail, labels |-> <<>>, listed |-> FALSE,
     elementList |-> <<>>, image |-> FALSE, capture |-> "", at |-> <<>>]

\* a result `${message}\n\n${formatElementList(elements)}` with the labeled image
ListResult(head, labels, elements) ==
    [head |-> head, detail |-> "", labels |-> labels, listed |-> TRUE,
     elementList |-> formatElementList(elements), image |-> TRUE,
     capture |-> "labeled", at |-> <<>>]

\* a result with the plain image
ImageResult(head) ==
    [head |-> head, detail |-> "", labels |-> <<>>, listed |-> FALSE,
     elementList |-> <<>>, image |-> TRUE, capture |-> "plain", at |-> <<>>]

Turn(role, text, r, image) == [role |-> role, text |-> text, round |-> r, image |-> image]

NoHandoff == [page |-> NoPage, old |-> NoPage, round |-> 0]

Last(seq) == seq[Len(seq)]

\* the loop has been left
Ended == pc \in {"finally", "exited"}

\* the module before its try block, and its two early ends
Starting == {"start", "client", "launch", "usage", "crashed"}

\* what has been done when the try block is entered
Booted == <<"LMStudioClient", "llm.model", "chromium.launch", "newPage">>

(***************************************************************************)
(* The agent loop: main.ts, the try block.                                 *)
(***************************************************************************)
Init ==
    /\ pc = "loop"
    /\ chat = <<Turn("system", "systemPrompt", 0, FALSE), Turn("user", "prompt", 0, FALSE)>>
    /\ round = 0
    /\ content = <<>>
    /\ toolCall = NoCall
    /\ toolResult = NoResult
    /\ error = "none"
    /\ exitPath = "running"
    /\ page = 0
    /\ lastDetectedElements = <<>>
    /\ cbl = NoFrame
    /\ numPages = 1
    /\ browserAlive = TRUE
    /\ navigating = FALSE
    /\ browserClosed = FALSE
    /\ ops = <<>>
    /\ nRequests = 0
    /\ nDispatch = 0
    /\ request = <<>>
    /\ shown = <<>>
    /\ handoff = NoHandoff
    /\ nResponses = 0
    /\ nSettled = 0
    /\ dpc = "idle"
    /\ dom = <<>>
    /\ detected = <<>>
    /\ svgParts = <<>>
    /\ argv = Str("task")
    /\ boot = Booted
    /\ exitCode = <<>>
    /\ fn = "none"
    /\ fpc = "idle"
    /\ fin = <<>>
    /\ fout = <<>>

\* for (let round = 0; round < maxRounds; round++): the test passes and
\* model.respond(chat) is called
RespondCall ==
    /\ UNCHANGED detectVars
    /\ pc = "loop"
    /\ round < maxRounds
    /\ pc' = "awaitModel"
    /\ request' = chat
    /\ nRequests' = nRequests + 1
    /\ UNCHANGED <<navigating, chat, round, content, toolCall, toolResult, error, exitPath, page,
                   lastDetectedElements, cbl, numPages, browserAlive, browserClosed,
                   ops, nDispatch, nResponses, nSettled, shown, handoff>>

\* the loop test fails: console.log("[Done]")
LoopBound ==
    /\ UNCHANGED detectVars
    /\ pc = "loop"
    /\ round >= maxRounds
    /\ pc' = "finally"
    /\ exitPath' = "bound"
    /\ UNCHANGED <<navigating, chat, round, content, toolCall, toolResult, error, page,
                   lastDetectedElements, cbl, numPages, browserAlive, browserClosed,
                   ops, nRequests, nResponses, nSettled, nDispatch, request, shown, handoff>>

AppendAssistant_Skip(c) == chat

\* chat.append("assistant", content)
AppendAssistant(c) == Append(chat, Turn("assistant", "content", round, FALSE))

AfterParse_NoBreak(call) == "dispatch"

\* if (!toolCall) break; otherwise executeTool is called
AfterParse(call) == IF call = NoCall THEN "finally" ELSE "dispatch"

\* model.respond returns: the response is appended and parsed
RespondReturn ==
    /\ UNCHANGED detectVars
    /\ pc = "awaitModel"
    /\ \E c \in Responses :
        /\ content' = c
        /\ chat' = AppendAssistant(c)
        /\ toolCall' = parseToolCall(c)
        /\ pc' = AfterParse(parseToolCall(c))
        /\ exitPath' = IF AfterParse(parseToolCall(c)) = "finally" THEN "final" ELSE exitPath
    /\ ops' = <<>>
    /\ nResponses' = nResponses + 1
    /\ UNCHANGED <<navigating, round, toolResult, error, page, lastDetectedElements, cbl, numPages,
                   browserAlive, browserClosed, nRequests, nSettled, nDispatch, request, shown,
                   handoff>>

\* model.respond rejects
RespondThrows ==
    /\ UNCHANGED detectVars
    /\ pc = "awaitModel"
    /\ pc' = "finally"
    /\ error' = "ModelError"
    /\ exitPath' = "error"
    /\ nResponses' = nResponses + 1
    /\ UNCHANGED <<navigating, chat, round, content, toolCall, toolResult, page,
                   lastDetectedElements, cbl, numPages, browserAlive, browserClosed,
                   ops, nRequests, nSettled, nDispatch, request, shown, handoff>>

AppendUserTurn_Twice(result) ==
    Append(Append(chat, Turn("user", "Tool result", round, result.image)),
           Turn("user", "Tool result", round, result.image))

AppendUserTurn_Overwrite(result) ==
    [chat EXCEPT ![Len(chat)] = Turn("user", "Tool result", round, result.image)]

\* chat.append("user", `Tool result: ...`, {images: [image]}) or without the image
AppendUserTurn(result) == Append(chat, Turn("user", "Tool result", round, result.image))

\* executeTool has returned: the result becomes a user turn, round++
AppendResult ==
    /\ UNCHANGED detectVars
    /\ pc = "append"
    /\ chat' = AppendUserTurn(toolResult)
    /\ round' = round + 1
    /\ pc' = "loop"
    /\ content' = <<>>
    /\ toolCall' = NoCall
    /\ toolResult' = NoResult
    /\ cbl' = NoFrame
    /\ ops' = <<>>
    /\ UNCHANGED <<navigating, error, exitPath, page, lastDetectedElements, numPages, browserAlive,
                   browserClosed, nRequests, nResponses, nSettled, nDispatch, request, shown, handoff>>

FinallyCloses_OnSuccessOnly(path) == path # "error"

\* finally { await browser.close(); }
FinallyCloses(path) == TRUE

Finally ==
    /\ UNCHANGED detectVars
    /\ pc = "finally"
    /\ pc' = "exited"
    /\ browserClosed' = FinallyCloses(exitPath)
    /\ UNCHANGED <<navigating, chat, round, content, toolCall, toolResult, error, exitPath, page,
                   lastDetectedElements, cbl, numPages, browserAlive, ops, nRequests, nResponses, nSettled,
                   nDispatch, request, shown, handoff>>

\* the browser process dies
BrowserCrash ==
    /\ UNCHANGED detectVars
    /\ browserAlive
    /\ pc \notin {"finally", "exited"} \cup Starting
    /\ browserAlive' = FALSE
    /\ UNCHANGED <<navigating, pc, chat, round, content, toolCall, toolResult, error, exitPath, page,
                   lastDetectedElements, cbl, numPages, browserClosed, ops, nRequests, nResponses, nSettled,
                   nDispatch, request, shown, handoff>>

(***************************************************************************)
(* executeTool: main.ts, one action per case of the switch.  The tools of  *)
(* browser.ts are inlined in the case that calls them.                     *)
(* client.files.prepareImageBase64 is taken to succeed.                    *)
(***************************************************************************)
HandledTools == {"navigate", "labeledScreenshot", "screenshot", "getContents",
                 "clickByLabel", "click", "scroll", "type", "keyboard", "press",
                 "reload"}

ValidUrls == {"https://x"}
Directions == {"up", "down", "left", "right"}

\* executeTool is entered for the parsed tool name
Dispatching(toolName) ==
    /\ pc = "dispatch"
    /\ toolCall.tool = toolName
    /\ nDispatch' = nDispatch + 1
    /\ UNCHANGED <<chat, round, content, toolCall, browserAlive, browserClosed,
                   nRequests, nResponses, request>>

\* return {result, image}
Returns(result) ==
    /\ pc' = "append"
    /\ toolResult' = result
    /\ nSettled' = nSettled + 1
    /\ shown' = IF result.listed THEN result.elementList ELSE shown
    /\ UNCHANGED <<error, exitPath>>

\* an exception leaves executeTool and reaches the catch block of main.ts
Throws(e) ==
    /\ pc' = "finally"
    /\ error' = e
    /\ exitPath' = "error"
    /\ nSettled' = nSettled + 1
    /\ UNCHANGED <<toolResult, shown>>

\* client.files.prepareImageBase64 resolves, or rejects as any call of the client can
ImageUploads == {"ok", "UploadError"}

\* const image = await client.files.prepareImageBase64(...); return {result, image}
\* in a case without try/catch
ReturnsImage(result) ==
    \E upload \in ImageUploads :
        IF upload = "ok" THEN Returns(result) ELSE Throws(upload)

\* the same inside try { } catch (error) { return { result: `Navigation failed: ...` } }
ReturnsImageOrCatches(result) ==
    \E upload \in ImageUploads :
        Returns(IF upload = "ok" THEN result ELSE TextResult("Navigation failed: ", upload))

\* a case that calls labeledScreenshot(page) last, the page navigating or not:
\* the pass either throws or its elements are stored and listed in the result
LabeledTailAt(head, at, before, nav) ==
    /\ navigating' = nav
    /\ \E shot \in takeLabeledScreenshot(browserAlive, nav) :
        /\ ops' = before \o <<Op("detect", page, shot.out)>>
        /\ IF shot.out = "ok"
           THEN /\ lastDetectedElements' = setLastDetectedElements(shot.elements)
                /\ ReturnsImage([ListResult(head, <<>>, shot.elements) EXCEPT !.at = at])
           ELSE /\ Throws(shot.out)
                /\ UNCHANGED lastDetectedElements

LabeledTail(head, before, nav) == LabeledTailAt(head, <<>>, before, nav)

\* a case that throws before it reaches a pass
ThrowsEarly(e, before) ==
    /\ ops' = before
    /\ Throws(e)
    /\ UNCHANGED <<lastDetectedElements, navigating>>

\* case "navigate": try { navigate; labeledScreenshot } catch { "Navigation failed" }
ExecuteNavigate ==
    /\ UNCHANGED detectVars
    /\ Dispatching("navigate")
    /\ UNCHANGED <<page, cbl, numPages, handoff>>
    /\ LET url == toolCall.args["url"] IN
       IF ~(IsString(url) /\ url.s \in ValidUrls)
       THEN \* navigateSchema.parse throws inside the try
            /\ ops' = <<>>
            /\ UNCHANGED <<lastDetectedElements, navigating>>
            /\ Returns(TextResult("Navigation failed: ", "ZodError"))
       ELSE IF ~browserAlive
       THEN \* goto fails, takeScreenshot throws inside the try
            /\ ops' = <<Op("goto", page, "BrowserFailure"),
                        Op("screenshot", page, "BrowserFailure")>>
            /\ UNCHANGED <<lastDetectedElements, navigating>>
            /\ Returns(TextResult("Navigation failed: ", "BrowserFailure"))
       ELSE \E load \in {"ok", "Timeout", "issue"} :
            LET nav == IF load = "ok" THEN FALSE
                       ELSE IF load = "Timeout" THEN TRUE
                       ELSE navigating
            IN  /\ navigating' = nav
                /\ \E shot \in takeLabeledScreenshot(browserAlive, nav) :
                    /\ ops' = <<Op("goto", page, load), Op("screenshot", page, "ok"),
                                Op("detect", page, shot.out)>>
                    /\ IF shot.out = "ok"
                       THEN /\ lastDetectedElements' = setLastDetectedElements(shot.elements)
                            /\ ReturnsImageOrCatches(ListResult(
                                  IF load = "ok" THEN "Navigated to "
                                  ELSE IF load = "Timeout"
                                  THEN "Navigation timed out after 3s"
                                  ELSE "Navigation had an issue", <<>>, shot.elements))
                       ELSE /\ UNCHANGED lastDetectedElements
                            /\ Returns(TextResult("Navigation failed: ", shot.out))

\* case "labeledScreenshot"
ExecuteLabeledScreenshot ==
    /\ UNCHANGED detectVars
    /\ Dispatching("labeledScreenshot")
    /\ UNCHANGED <<page, cbl, numPages, handoff>>
    /\ LabeledTail("Labeled screenshot taken.", <<>>, navigating)

\* case "screenshot"
ExecuteScreenshot ==
    /\ UNCHANGED detectVars
    /\ Dispatching("screenshot")
    /\ UNCHANGED <<page, cbl, numPages, handoff, lastDetectedElements, navigating>>
    /\ IF browserAlive
       THEN /\ ops' = <<Op("screenshot", page, "ok")>>
            /\ ReturnsImage(ImageResult("Screenshot taken"))
       ELSE /\ ops' = <<Op("screenshot", page, "BrowserFailure")>>
            /\ Throws("BrowserFailure")

\* what page.$ and page.evaluate can do on the active page
EvaluateOutcomes == {"ok"} \cup (IF navigating THEN {"ContextDestroyed"} ELSE {})

\* case "getContents"
ExecuteGetContents ==
    /\ UNCHANGED detectVars
    /\ Dispatching("getContents")
    /\ UNCHANGED <<page, cbl, numPages, handoff>>
    /\ LET selector == toolCall.args["selector"] IN
       IF ~(selector = Undef \/ IsString(selector))
       THEN ThrowsEarly("ZodError", <<>>)
       ELSE IF ~browserAlive
       THEN ThrowsEarly("BrowserFailure", <<Op("query", page, "BrowserFailure")>>)
       ELSE \E out \in EvaluateOutcomes :
            IF out # "ok"
            THEN ThrowsEarly(out, <<Op("query", page, out)>>)
            ELSE /\ UNCHANGED <<lastDetectedElements, navigating>>
                 /\ IF IsString(selector) /\ selector.s # ""
                    THEN \E found \in BOOLEAN :
                            /\ ops' = <<Op("query", page, IF found THEN "ok" ELSE "null")>>
                            /\ Returns(IF found
                                       THEN TextResult("element text", selector.s)
                                       ELSE TextResult(
                                              "No element found matching selector: ",
                                              selector.s))
                    ELSE /\ ops' = <<Op("innerText", page, "ok")>>
                         /\ Returns(TextResult("page text", ""))

\* case "click": click(page, {x, y}) clicks, waits and takes the capture with the
\* click indicator; the case then calls labeledScreenshot(page) and returns the
\* message of click with the image and the elements of the labeled capture
ExecuteClick ==
    /\ UNCHANGED detectVars
    /\ Dispatching("click")
    /\ UNCHANGED <<page, cbl, numPages, handoff>>
    /\ IF ~(IsNumber(toolCall.args["x"]) /\ IsNumber(toolCall.args["y"]))
       THEN ThrowsEarly("ZodError", <<>>)
       ELSE IF ~browserAlive
       THEN ThrowsEarly("BrowserFailure", <<Op("mouse.click", page, "BrowserFailure")>>)
       ELSE LET at == <<toolCall.args["x"].n, toolCall.args["y"].n>>
            IN  \E starts \in BOOLEAN :
                LabeledTailAt("Clicked at coordinates", at,
                              <<OpArg("mouse.click", page, "ok", at),
                                Op("wait", page, "ok"),
                                OpArg("screenshot", page, "ok", at)>>,
                              navigating \/ starts)

scrollDelta_Swapped(direction, amount) ==
    <<IF direction = "up" THEN 0 - amount ELSE IF direction = "down" THEN amount ELSE 0,
      IF direction = "left" THEN 0 - amount ELSE IF direction = "right" THEN amount ELSE 0>>

\* scroll: const deltaX = ..., const deltaY = ...
scrollDelta(direction, amount) ==
    <<IF direction = "left" THEN 0 - amount ELSE IF direction = "right" THEN amount ELSE 0,
      IF direction = "up" THEN 0 - amount ELSE IF direction = "down" THEN amount ELSE 0>>

\* (args.amount as number) ?? 500
amountOrDefault(amount) == IF amount = Undef THEN Num(500) ELSE amount

\* the input the scroll case builds for scroll: direction and amount, no selector
scrollInput(args) ==
    [direction |-> args["direction"], amount |-> amountOrDefault(args["amount"]),
     selector |-> Undef]

\* scroll: if (selector) the element is scrolled, otherwise the window
scrollTarget(selector) ==
    IF IsString(selector) /\ selector.s # "" THEN "element.scrollBy" ELSE "window.scrollBy"

\* case "scroll": scroll(page, {direction, amount ?? 500}), then labeledScreenshot(page)
ExecuteScroll ==
    /\ UNCHANGED detectVars
    /\ Dispatching("scroll")
    /\ UNCHANGED <<page, cbl, numPages, handoff>>
    /\ LET input == scrollInput(toolCall.args)
           by == scrollTarget(input.selector)
       IN  IF ~(/\ IsString(input.direction) /\ input.direction.s \in Directions
                /\ IsNumber(input.amount)
                /\ (input.selector = Undef \/ IsString(input.selector)))
           THEN ThrowsEarly("ZodError", <<>>)
           ELSE IF ~browserAlive
           THEN ThrowsEarly("BrowserFailure", <<Op(by, page, "BrowserFailure")>>)
           ELSE \E out \in EvaluateOutcomes : \E found \in BOOLEAN :
                IF out # "ok"
                THEN ThrowsEarly(out, <<Op(by, page, out)>>)
                ELSE IF by = "element.scrollBy" /\ ~found
                THEN LabeledTail("No element found matching selector: ",
                                 <<Op("query", page, "null")>>, navigating)
                ELSE LabeledTail("Scrolled",
                                 <<OpArg(by, page, "ok",
                                         scrollDelta(input.direction.s, input.amount.n))>>,
                                 navigating)

\* case "type": try { typeText } catch { "Type failed" }
ExecuteType ==
    /\ UNCHANGED detectVars
    /\ Dispatching("type")
    /\ UNCHANGED <<page, cbl, numPages, handoff, lastDetectedElements, navigating>>
    /\ IF ~(IsString(toolCall.args["selector"]) /\ IsString(toolCall.args["text"]))
       THEN /\ ops' = <<>>
            /\ Returns(TextResult("Type failed: ", "ZodError"))
       ELSE IF ~browserAlive
       THEN /\ ops' = <<Op("query", page, "BrowserFailure")>>
            /\ Returns(TextResult("Type failed: ", "BrowserFailure"))
       ELSE \E out \in EvaluateOutcomes : \E found \in BOOLEAN :
            IF out # "ok"
            THEN /\ ops' = <<Op("query", page, out)>>
                 /\ Returns(TextResult("Type failed: ", out))
            ELSE IF found
            THEN /\ ops' = <<Op("query", page, "ok"), Op("element.type", page, "ok")>>
                 /\ Returns(TextResult("Typed into element: ",
                                       toolCall.args["selector"].s))
            ELSE /\ ops' = <<Op("query", page, "null")>>
                 /\ Returns(TextResult("No element found matching selector: ",
                                       toolCall.args["selector"].s))

\* case "keyboard": page.keyboard.type(args.text), then labeledScreenshot(page)
ExecuteKeyboard ==
    /\ UNCHANGED detectVars
    /\ Dispatching("keyboard")
    /\ UNCHANGED <<page, cbl, numPages, handoff>>
    /\ IF ~IsString(toolCall.args["text"])
       THEN ThrowsEarly("ArgumentError", <<>>)
       ELSE IF ~browserAlive
       THEN ThrowsEarly("BrowserFailure", <<Op("keyboard.type", page, "BrowserFailure")>>)
       ELSE \E starts \in BOOLEAN :
            LabeledTail("Typed", <<Op("keyboard.type", page, "ok")>>, navigating \/ starts)

\* case "press": page.keyboard.press(args.key), then labeledScreenshot(page)
ExecutePress ==
    /\ UNCHANGED detectVars
    /\ Dispatching("press")
    /\ UNCHANGED <<page, cbl, numPages, handoff>>
    /\ IF ~IsString(toolCall.args["key"])
       THEN ThrowsEarly("ArgumentError", <<>>)
       ELSE IF ~browserAlive
       THEN ThrowsEarly("BrowserFailure", <<Op("keyboard.press", page, "BrowserFailure")>>)
       ELSE \E starts \in BOOLEAN :
            LabeledTail("Pressed", <<Op("keyboard.press", page, "ok")>>,
                        navigating \/ starts)

\* case "reload": reload(page, {}), then labeledScreenshot(page)
ExecuteReload ==
    /\ UNCHANGED detectVars
    /\ Dispatching("reload")
    /\ UNCHANGED <<page, cbl, numPages, handoff>>
    /\ IF ~browserAlive
       THEN ThrowsEarly("BrowserFailure", <<Op("reload", page, "BrowserFailure")>>)
       ELSE \E nav \in BOOLEAN :
            LabeledTail("Page reloaded",
                        <<Op("reload", page, "ok"), Op("wait", page, "ok"),
                          Op("screenshot", page, "ok")>>, nav)

executeToolDefault_NoName(toolName) == TextResult("Unknown tool: ", "")

\* default: return { result: `Unknown tool: ${toolName}` }
executeToolDefault(toolName) == TextResult("Unknown tool: ", toolName)

ExecuteDefault ==
    /\ UNCHANGED detectVars
    /\ pc = "dispatch"
    /\ toolCall.tool \notin HandledTools
    /\ nDispatch' = nDispatch + 1
    /\ ops' = <<>>
    /\ Returns(executeToolDefault(toolCall.tool))
    /\ UNCHANGED <<chat, round, content, toolCall, browserAlive, browserClosed,
                   nRequests, nResponses, request, page, cbl, numPages, handoff,
                   lastDetectedElements, navigating>>

(***************************************************************************)
(* case "clickByLabel": clickByLabel of browser.ts, one action per await,  *)
(* and the rest of the case once clickByLabel has returned.                *)
(***************************************************************************)
\* for (let retry = 0; retry < 3; retry++)
DetectAttempts == 3

ActivePage_Keep(current, newPage) == current

ActivePage_Reset(current, newPage) == IF newPage # NoPage THEN newPage ELSE 0

\* if (result.newPage) { page = result.newPage; }
ActivePage(current, newPage) == IF newPage # NoPage THEN newPage ELSE current

\* clickByLabel returns {message, screenshot, newPage}: the case stores the new page
\* and the elements and returns the result
ClickByLabelReturns(head, labels, elements, newPage) ==
    /\ page' = ActivePage(page, newPage)
    /\ lastDetectedElements' = setLastDetectedElements(elements)
    /\ handoff' = IF newPage # NoPage
                  THEN [page |-> newPage, old |-> page, round |-> round]
                  ELSE handoff
    /\ ReturnsImage(ListResult(head, labels, elements))

\* clickByLabel throws
ClickByLabelThrows(e) ==
    /\ Throws(e)
    /\ UNCHANGED <<page, lastDetectedElements, handoff>>

ClickByLabelAt_NotAwaited(next) ==
    /\ pc' = "loop"
    /\ UNCHANGED <<nSettled, toolResult, shown, error, exitPath, page,
                   lastDetectedElements, handoff>>

\* clickByLabel goes on to its next await
ClickByLabelAt(next) ==
    /\ pc' = next
    /\ UNCHANGED <<nSettled, toolResult, shown, error, exitPath, page, lastDetectedElements,
                   handoff>>

isLink_Never(element) == FALSE

isLink_Always(element) == TRUE

\* const isLink = element.type === "link"
isLink(element) == element.type = "link"

\* the label is parsed and looked up; an unknown label gets a fresh pass, a known
\* one arms the two waits when the element is a link
ExecuteClickByLabel ==
    /\ UNCHANGED detectVars
    /\ Dispatching("clickByLabel")
    /\ UNCHANGED <<numPages, navigating>>
    /\ LET label == toolCall.args["label"]
           element == Find(lastDetectedElements, label.n)
       IN  IF ~IsNumber(label)
           THEN /\ ops' = <<>>
                /\ cbl' = NoFrame
                /\ ClickByLabelThrows("ZodError")
           ELSE IF element = NoElement
           THEN \E shot \in takeLabeledScreenshot(browserAlive, navigating) :
                    /\ ops' = <<Op("detect", page, shot.out)>>
                    /\ cbl' = NoFrame
                    /\ IF shot.out = "ok"
                       THEN ClickByLabelReturns(
                                "Element with label not found. Available labels: ",
                                [i \in 1..Len(shot.elements) |-> shot.elements[i].label],
                                shot.elements, NoPage)
                       ELSE ClickByLabelThrows(shot.out)
           ELSE /\ cbl' = [NoFrame EXCEPT !.label = label.n, !.element = element,
                                          !.armed = isLink(element)]
                /\ ops' = IF isLink(element)
                          THEN <<Op("waitForEvent", page, "armed"),
                                 Op("waitForNavigation", page, "armed")>>
                          ELSE <<>>
                /\ ClickByLabelAt("cbl_click")

cblFrame == <<chat, round, content, toolCall, browserClosed, nRequests, nResponses, nDispatch,
              request, browserAlive>>

\* await page.mouse.click(centerX, centerY)
CblClick ==
    /\ UNCHANGED detectVars
    /\ pc = "cbl_click"
    /\ UNCHANGED <<cblFrame, numPages, navigating>>
    /\ IF ~browserAlive
       THEN /\ ops' = Append(ops, Op("mouse.click", page, "BrowserFailure"))
            /\ UNCHANGED cbl
            /\ ClickByLabelThrows("BrowserFailure")
       ELSE /\ ops' = Append(ops, Op("mouse.click", page, "ok"))
            /\ cbl' = [cbl EXCEPT !.clicked = TRUE]
            /\ ClickByLabelAt(IF cbl.armed THEN "cbl_await" ELSE "cbl_settle")

\* the click opens a new tab; an armed wait that has not resolved yet observes it
TabOpens ==
    /\ UNCHANGED detectVars
    /\ pc \in {"cbl_await", "cbl_settle"}
    /\ browserAlive
    /\ ~cbl.opened
    /\ numPages < MaxPages
    /\ numPages' = numPages + 1
    /\ cbl' = [cbl EXCEPT !.opened = TRUE,
                          !.newPage = IF pc = "cbl_await" THEN numPages ELSE NoPage,
                          !.events = Append(cbl.events, "page")]
    /\ UNCHANGED <<pc, cblFrame, navigating, nSettled, toolResult, shown, error, exitPath,
                   page, lastDetectedElements, handoff, ops>>

\* the click navigates the current page; an armed wait that has not resolved yet
\* observes it
PageNavigates ==
    /\ UNCHANGED detectVars
    /\ pc \in {"cbl_await", "cbl_settle"}
    /\ browserAlive
    /\ ~cbl.navigated
    /\ navigating' = TRUE
    /\ cbl' = [cbl EXCEPT !.navigated = TRUE, !.navigationResult = (pc = "cbl_await"),
                          !.events = Append(cbl.events, "navigation")]
    /\ UNCHANGED <<pc, cblFrame, numPages, nSettled, toolResult, shown, error,
                   exitPath, page, lastDetectedElements, handoff, ops>>

\* the navigation of the active page ends
PageSettles ==
    /\ UNCHANGED detectVars
    /\ navigating
    /\ ~Ended
    /\ navigating' = FALSE
    /\ UNCHANGED <<pc, cbl, cblFrame, numPages, nSettled, toolResult, shown, error,
                   exitPath, page, lastDetectedElements, handoff, ops>>

AfterWaits_NoCatch(newPage) == IF newPage # NoPage THEN "cbl_newtab" ELSE "finally"

AfterWaits_NavigationWins(newPage) ==
    IF newPage # NoPage /\ ~cbl.navigationResult THEN "cbl_newtab" ELSE "cbl_settle"

\* .catch(() => null) on both waits, then if (newPage) {...} else waitForTimeout(500)
AfterWaits(newPage) == IF newPage # NoPage THEN "cbl_newtab" ELSE "cbl_settle"

AwaitResolves_NoTimeout(frame) == frame.newPage # NoPage /\ frame.navigationResult

\* { timeout: 5000 } and .catch(() => null) on both waits: a wait whose event does
\* not come resolves all the same
AwaitResolves(frame) == TRUE

\* await Promise.all([newPagePromise, navigationPromise]): each wait has resolved
\* with its event or, after its timeout, with null
CblAwaited ==
    /\ UNCHANGED detectVars
    /\ pc = "cbl_await"
    /\ AwaitResolves(cbl)
    /\ UNCHANGED <<cbl, cblFrame, numPages, navigating, ops>>
    /\ ClickByLabelAt(AfterWaits(cbl.newPage))

\* if (newPage): load wait, 500 ms, bringToFront, one pass on the new page, which
\* may itself be navigating
CblNewTab ==
    /\ UNCHANGED detectVars
    /\ pc = "cbl_newtab"
    /\ UNCHANGED <<cbl, cblFrame, numPages>>
    /\ IF ~browserAlive
       THEN /\ ops' = Append(ops, Op("wait", cbl.newPage, "BrowserFailure"))
            /\ UNCHANGED navigating
            /\ ClickByLabelThrows("BrowserFailure")
       ELSE \E nav \in BOOLEAN : \E shot \in takeLabeledScreenshot(browserAlive, nav) :
            /\ ops' = ops \o <<Op("waitForLoadState", cbl.newPage, "ok"),
                               Op("wait", cbl.newPage, "ok"),
                               Op("bringToFront", cbl.newPage, "ok"),
                               Op("detect", cbl.newPage, shot.out)>>
            /\ IF shot.out = "ok"
               THEN /\ navigating' = nav
                    /\ ClickByLabelReturns("Clicked element - opened in new tab", <<>>,
                                           shot.elements, cbl.newPage)
               ELSE /\ UNCHANGED navigating
                    /\ ClickByLabelThrows(shot.out)

\* await page.waitForTimeout(500)
CblSettle ==
    /\ UNCHANGED detectVars
    /\ pc = "cbl_settle"
    /\ UNCHANGED <<cbl, cblFrame, numPages, navigating>>
    /\ IF ~browserAlive
       THEN /\ ops' = Append(ops, Op("wait", page, "BrowserFailure"))
            /\ ClickByLabelThrows("BrowserFailure")
       ELSE /\ ops' = Append(ops, Op("wait", page, "ok"))
            /\ ClickByLabelAt("cbl_detect")

\* one iteration of the retry loop: a pass that succeeds ends clickByLabel, one
\* that throws is followed by a 1000 ms wait, the third one by a throw
CblDetect ==
    /\ UNCHANGED detectVars
    /\ pc = "cbl_detect"
    /\ UNCHANGED <<cblFrame, numPages, navigating>>
    /\ \E shot \in takeLabeledScreenshot(browserAlive, navigating) :
        IF shot.out = "ok"
        THEN /\ ops' = Append(ops, Op("detect", page, "ok"))
             /\ UNCHANGED cbl
             /\ ClickByLabelReturns("Clicked element", <<>>, shot.elements, NoPage)
        ELSE IF cbl.retry = DetectAttempts - 1
        THEN /\ ops' = Append(ops, Op("detect", page, shot.out))
             /\ UNCHANGED cbl
             /\ ClickByLabelThrows("Failed to take screenshot after clicking")
        ELSE IF ~browserAlive
        THEN /\ ops' = ops \o <<Op("detect", page, shot.out),
                                Op("wait", page, "BrowserFailure")>>
             /\ UNCHANGED cbl
             /\ ClickByLabelThrows("BrowserFailure")
        ELSE /\ ops' = ops \o <<Op("detect", page, shot.out), Op("wait", page, "ok")>>
             /\ cbl' = [cbl EXCEPT !.retry = cbl.retry + 1]
             /\ ClickByLabelAt("cbl_detect")

Next ==
    \/ RespondCall
    \/ LoopBound
    \/ RespondReturn
    \/ RespondThrows
    \/ ExecuteNavigate
    \/ ExecuteLabeledScreenshot
    \/ ExecuteScreenshot
    \/ ExecuteGetContents
    \/ ExecuteClickByLabel
    \/ CblClick
    \/ TabOpens
    \/ PageNavigates
    \/ PageSettles
    \/ CblAwaited
    \/ CblNewTab
    \/ CblSettle
    \/ CblDetect
    \/ ExecuteClick
    \/ ExecuteScroll
    \/ ExecuteType
    \/ ExecuteKeyboard
    \/ ExecutePress
    \/ ExecuteReload
    \/ ExecuteDefault
    \/ AppendResult
    \/ Finally
    \/ BrowserCrash

Spec == Init /\ [][Next]_vars

\* what the pages and the browser do of their own accord
Environment == TabOpens \/ PageNavigates \/ PageSettles \/ BrowserCrash

\* a step of the program: an awaited model request or browser operation that
\* returns, throws or times out, and the synchronous code up to the next await
ProgramStep ==
    \/ RespondCall \/ LoopBound \/ RespondReturn \/ RespondThrows
    \/ ExecuteNavigate \/ ExecuteLabeledScreenshot \/ ExecuteScreenshot
    \/ ExecuteGetContents \/ ExecuteClickByLabel \/ CblClick \/ CblAwaited
    \/ CblNewTab \/ CblSettle \/ CblDetect \/ ExecuteClick \/ ExecuteScroll
    \/ ExecuteType \/ ExecuteKeyboard \/ ExecutePress \/ ExecuteReload
    \/ ExecuteDefault \/ AppendResult \/ Finally

\* the loop when every awaited operation eventually returns, throws or times
\* out; nothing is assumed of the pages and the browser
LiveSpec == Init /\ [][Next]_vars /\ WF_vars(ProgramStep)

(***************************************************************************)
(* A detection pass on its own: the matched elements of a page are the     *)
(* input, detectClickableElements is applied to them once.                 *)
(***************************************************************************)
loopVars == <<pc, chat, round, content, toolCall, toolResult, error, exitPath, page,
              lastDetectedElements, cbl, numPages, browserAlive, navigating,
              browserClosed, ops, nRequests, nDispatch, request, shown, handoff,
              nResponses, nSettled>>

InitDetect ==
    /\ pc = "loop"
    /\ chat = <<Turn("system", "systemPrompt", 0, FALSE), Turn("user", "prompt", 0, FALSE)>>
    /\ round = 0
    /\ content = <<>>
    /\ toolCall = NoCall
    /\ toolResult = NoResult
    /\ error = "none"
    /\ exitPath = "running"
    /\ page = 0
    /\ lastDetectedElements = <<>>
    /\ cbl = NoFrame
    /\ numPages = 1
    /\ browserAlive = TRUE
    /\ navigating = FALSE
    /\ browserClosed = FALSE
    /\ ops = <<>>
    /\ nRequests = 0
    /\ nDispatch = 0
    /\ request = <<>>
    /\ shown = <<>>
    /\ handoff = NoHandoff
    /\ nResponses = 0
    /\ nSettled = 0
    /\ dpc = "ready"
    /\ dom \in DomInputs
    /\ detected = <<>>
    /\ svgParts = <<>>
    /\ argv = Str("task")
    /\ boot = Booted
    /\ exitCode = <<>>
    /\ fn = "none"
    /\ fpc = "idle"
    /\ fin = <<>>
    /\ fout = <<>>

\* detectClickableElements(page) returns
DetectPass ==
    /\ dpc = "ready"
    /\ \E found \in evaluateOutcomes(dom) :
        detected' = detectClickableElements(found)
    /\ dpc' = "done"
    /\ UNCHANGED <<dom, svgParts, pureVars, startVars, loopVars>>

getElementColor_ButtonPurple(type) ==
    IF type = "link" THEN "#3B82F6"
    ELSE IF startsWith(type, "input[") \/ type = "textarea" \/ type = "select"
    THEN "#22C55E"
    ELSE "#A855F7"

getElementColor(type) ==
    IF type = "link" THEN "#3B82F6"
    ELSE IF startsWith(type, "input[") \/ type = "textarea" \/ type = "select"
    THEN "#22C55E"
    ELSE IF type = "button" THEN "#F97316"
    ELSE "#A855F7"

\* Math.max
Max(a, b) == IF a > b THEN a ELSE b

\* <circle cx cy r="12" fill/>, and the distance at which its centre is kept
\* from the left and the top edge
LabelRadius == 12

\* the rect, the circle and the text that the loop body pushes for one element
overlay(el) ==
    LET color == getElementColor(el.type)
        labelX == Max(LabelRadius, el.x)
        labelY == Max(LabelRadius, el.y)
    IN  [label |-> el.label, type |-> el.type,
         rect |-> [x |-> el.x, y |-> el.y, width |-> el.width, height |-> el.height,
                   stroke |-> color],
         circle |-> [cx |-> labelX, cy |-> labelY, r |-> LabelRadius, fill |-> color],
         text |-> [x |-> labelX, y |-> labelY + 4, fill |-> "white", n |-> el.label]]

\* takeLabeledScreenshot, after detectClickableElements: for (const el of elements)
DrawLabels ==
    /\ dpc = "done"
    /\ svgParts' = [i \in DOMAIN detected |-> overlay(detected[i])]
    /\ dpc' = "drawn"
    /\ UNCHANGED <<dom, detected, pureVars, startVars, loopVars>>

DetectNext == DetectPass \/ DrawLabels

DetectSpec == InitDetect /\ [][DetectNext]_vars

(***************************************************************************)
(* The process from its start: main.ts before the try block, then the loop. *)
(***************************************************************************)
\* process.argv[2]: missing, empty or a task
Argvs == {Undef, Str(""), Str("task")}

promptMissing_Never(prompt) == FALSE

\* if (!prompt)
promptMissing(prompt) == prompt = Undef \/ prompt = Str("")

InitStart ==
    /\ pc = "start"
    /\ chat = <<Turn("system", "systemPrompt", 0, FALSE), Turn("user", "prompt", 0, FALSE)>>
    /\ round = 0
    /\ content = <<>>
    /\ toolCall = NoCall
    /\ toolResult = NoResult
    /\ error = "none"
    /\ exitPath = "running"
    /\ page = 0
    /\ lastDetectedElements = <<>>
    /\ cbl = NoFrame
    /\ numPages = 1
    /\ browserAlive = TRUE
    /\ navigating = FALSE
    /\ browserClosed = FALSE
    /\ ops = <<>>
    /\ nRequests = 0
    /\ nDispatch = 0
    /\ request = <<>>
    /\ shown = <<>>
    /\ handoff = NoHandoff
    /\ nResponses = 0
    /\ nSettled = 0
    /\ dpc = "idle"
    /\ dom = <<>>
    /\ detected = <<>>
    /\ svgParts = <<>>
    /\ fn = "none"
    /\ fpc = "idle"
    /\ fin = <<>>
    /\ fout = <<>>
    /\ argv \in Argvs
    /\ boot = <<>>
    /\ exitCode = <<>>

\* a step before the try block
StartStep(from, to, done, status) ==
    /\ pc = from
    /\ pc' = to
    /\ boot' = boot \o done
    /\ exitCode' = status
    /\ UNCHANGED <<argv, dpc, dom, detected, svgParts, pureVars>>
    /\ UNCHANGED <<chat, round, content, toolCall, toolResult, error, exitPath, page,
                   lastDetectedElements, cbl, numPages, browserAlive, navigating,
                   browserClosed, ops, nRequests, nDispatch, request, shown, handoff,
                   nResponses, nSettled>>

\* if (!prompt) { console.error("Usage: ..."); process.exit(1) }
CheckPrompt ==
    IF promptMissing(argv)
    THEN StartStep("start", "usage", <<"usage">>, <<1>>)
    ELSE StartStep("start", "client", <<>>, <<>>)

\* new LMStudioClient(); await client.llm.model(): outside any try, a rejection
\* ends the process with a non-zero status
CreateClient ==
    \E ok \in BOOLEAN :
        IF ok
        THEN StartStep("client", "launch", <<"LMStudioClient", "llm.model">>, <<>>)
        ELSE StartStep("client", "crashed", <<"LMStudioClient">>, <<1>>)

\* await chromium.launch(...); await browser.newPage(...)
LaunchBrowser ==
    \E ok \in BOOLEAN :
        IF ok
        THEN StartStep("launch", "loop", <<"chromium.launch", "newPage">>, <<>>)
        ELSE StartStep("launch", "crashed", <<"chromium.launch">>, <<1>>)

StartNext == CheckPrompt \/ CreateClient \/ LaunchBrowser \/ Next

StartSpec == InitStart /\ [][StartNext]_vars

(***************************************************************************)
(* The functions of main.ts and browser.ts that compute a value from their *)
(* arguments alone, each applied once to an input.                         *)
(***************************************************************************)
\* segments of a model response
MaxSegments == 3

\* {"tool":"navigate","args":{"url":"https://x"}}
NavigateObject == Obj(Str("navigate"), Args1("url", Str("https://x")))

Segments ==
    { Prose, Braces, NavigateObject,
      Obj(Str("reload"), NoArgs), ObjNoArgs(Str("reload")),
      Malformed(NavigateObject), Malformed(ObjNoArgs(Str("reload"))),
      Shadowed(ObjNoArgs(Str("reload")), Num(5)),
      Obj(Num(5), NoArgs), ObjNoArgs(Str("")) }

Texts == UNION {[1..n -> Segments] : n \in 0..MaxSegments}

\* const maxLength = 10000
maxLength == 10000

\* "\n\n[Content truncated...]", as character codes
TruncationMarker ==
    <<10, 10, 91, 67, 111, 110, 116, 101, 110, 116, 32, 116, 114, 117, 110, 99, 97,
      116, 101, 100, 46, 46, 46, 93>>

\* document.body.innerText of a page of n characters, as character codes
innerText(n) == [i \in 1..n |-> 32 + (i % 95)]

PageTexts == {innerText(n) : n \in {0, 1, 9999, 10000, 10001, 20000}}

getContentsText_Inclusive(text) ==
    IF Len(text) >= maxLength
    THEN SubSeq(text, 1, maxLength) \o TruncationMarker
    ELSE text

\* getContents without a selector: if (text.length > maxLength) return
\* text.slice(0, maxLength) + "\n\n[Content truncated...]"; return text
getContentsText(text) ==
    IF Len(text) > maxLength
    THEN SubSeq(text, 1, maxLength) \o TruncationMarker
    ELSE text

\* the args of scroll actions
ScrollArgs ==
    {Args1("direction", Str(d)) : d \in Directions \cup {"sideways"}}
        \cup {Args2("direction", Str(d), "amount", Num(a)) :
                d \in Directions, a \in {0 - 100, 0, 1, 200, 500}}
        \cup {Args2("direction", Str(d), "amount", Str("far")) : d \in Directions}

\* the elements a page can hold, by tag, input type and corner
OverlayInputs ==
    {[tag |-> k[1], inputType |-> k[2], x |-> x, y |-> y] :
        k \in ({<<t, "">> : t \in {"a", "button", "textarea", "select", "div", "span", "li"}}
                 \cup {<<"input", t>> : t \in {"text", "submit", "checkbox", "password"}}),
        x \in {0, 20, 886}, y \in {0, 20, 886}}

InitFunction ==
    /\ pc = "loop"
    /\ chat = <<Turn("system", "systemPrompt", 0, FALSE), Turn("user", "prompt", 0, FALSE)>>
    /\ round = 0
    /\ content = <<>>
    /\ toolCall = NoCall
    /\ toolResult = NoResult
    /\ error = "none"
    /\ exitPath = "running"
    /\ page = 0
    /\ lastDetectedElements = <<>>
    /\ cbl = NoFrame
    /\ numPages = 1
    /\ browserAlive = TRUE
    /\ navigating = FALSE
    /\ browserClosed = FALSE
    /\ ops = <<>>
    /\ nRequests = 0
    /\ nDispatch = 0
    /\ request = <<>>
    /\ shown = <<>>
    /\ handoff = NoHandoff
    /\ nResponses = 0
    /\ nSettled = 0
    /\ dpc = "idle"
    /\ dom = <<>>
    /\ detected = <<>>
    /\ svgParts = <<>>
    /\ argv = Str("task")
    /\ boot = Booted
    /\ exitCode = <<>>
    /\ fpc = "ready"
    /\ fout = <<>>
    /\ \/ fn = "parseToolCall" /\ fin \in Texts
       \/ fn = "getContents" /\ fin \in PageTexts
       \/ fn = "scroll" /\ fin \in ScrollArgs
       \/ fn = "overlay" /\ fin \in OverlayInputs
       \/ fn = "formatElementList" /\ fin \in OverlayInputs

Applies(f, result) ==
    /\ fpc = "ready"
    /\ fn = f
    /\ fout' = result
    /\ fpc' = "done"
    /\ UNCHANGED <<fn, fin, dpc, dom, detected, svgParts, startVars, loopVars>>

\* parseToolCall(content)
ParseToolCall == Applies("parseToolCall", parseToolCall(fin))

\* getContents(page, {}) on a page whose innerText is fin
GetContents == Applies("getContents", getContentsText(fin))

\* scroll(page, {direction, amount ?? 500}): what scrollBy is called with, or
\* the ZodError of scrollSchema.parse
Scroll ==
    LET input == scrollInput(fin)
    IN  Applies("scroll",
                IF /\ IsString(input.direction) /\ input.direction.s \in Directions
                   /\ IsNumber(input.amount)
                THEN [thrown |-> "none", by |-> scrollTarget(input.selector),
                      delta |-> scrollDelta(input.direction.s, input.amount.n)]
                ELSE [thrown |-> "ZodError", by |-> "", delta |-> <<>>])

\* the loop body of takeLabeledScreenshot for the element the callback of
\* detectClickableElements pushes for fin
Overlay ==
    Applies("overlay",
            overlay([label |-> 1, type |-> elementType(fin), x |-> fin.x, y |-> fin.y,
                     width |-> 10, height |-> 10]))

\* one element of a labeled capture as the model gets it: its line in
\* formatElementList(elements) and its overlay in the image
FormatElementList ==
    LET el == [label |-> 1, type |-> elementType(fin), x |-> fin.x, y |-> fin.y,
               width |-> 10, height |-> 10]
    IN  Applies("formatElementList",
                [line |-> formatElementList(<<el>>)[1], drawn |-> overlay(el)])

FunctionNext == ParseToolCall \/ GetContents \/ Scroll \/ Overlay \/ FormatElementList

FunctionSpec == InitFunction /\ [][FunctionNext]_vars

(***************************************************************************)
(* Properties.                                                             *)
(***************************************************************************)
AssistantTurn(r) == Turn("assistant", "content", r, FALSE)
ClickByLabelPcs == {"cbl_click", "cbl_await", "cbl_newtab", "cbl_settle", "cbl_detect"}

\* C1: the model is asked at most maxRounds times, and a run in which every
\* response parsed to an action (the model and the browser never failing) ends
\* after the maxRounds-th dispatch, without an error, on that dispatch's
\* tool-result user turn.
C1_BoundEndsWithoutError ==
    /\ nRequests <= maxRounds
    /\ (pc = "exited" /\ exitPath # "final" /\ error # "ModelError" /\ browserAlive)
        => /\ error = "none"
           /\ nDispatch = maxRounds
           /\ Last(chat).role = "user"
           /\ Last(chat).text = "Tool result"
           /\ Last(chat).round = maxRounds - 1

\* the first response is a clickByLabel action whose label is a string: the loop
\* ends in its first dispatch, with an error, the last turn the assistant's
C1_Failure ==
    /\ pc = "exited" /\ exitPath = "error" /\ error = "ZodError" /\ browserAlive
    /\ round = 0 /\ nRequests = 1 /\ nDispatch = 1
    /\ toolCall.tool = "clickByLabel" /\ toolCall.args["label"] = Str("five")
    /\ Last(chat) = AssistantTurn(0)

\* C2: a response that parseToolCall maps to null ends the loop in its round: the
\* response is appended as an assistant turn and the loop is left, and once the
\* loop is left there is no model request, no dispatch and no further turn.
C2_FinalAnswerTerminates ==
    /\ [][(/\ pc = "awaitModel" /\ pc' # pc /\ error' = error
           /\ parseToolCall(content') = NoCall)
            => (/\ pc' = "finally"
                /\ chat' = Append(chat, AssistantTurn(round))
                /\ nDispatch' = nDispatch /\ ops' = <<>>)]_vars
    /\ [][Ended => (/\ nRequests' = nRequests /\ nDispatch' = nDispatch
                    /\ chat' = chat /\ ops' = ops /\ Ended')]_vars

C2_Witness ==
    /\ pc = "exited" /\ exitPath = "final" /\ round = 1
    /\ Last(chat) = AssistantTurn(1)
    /\ nRequests = 2 /\ nDispatch = 1

\* the position-by-position account of a round
C3_RoundShape ==
    /\ pc = "loop" => /\ nRequests = round /\ nDispatch = round
                      /\ Len(chat) = 2 + 2 * round
                      /\ round > 0 => /\ Last(chat).role = "user"
                                      /\ Last(chat).round = round - 1
                                      /\ chat[Len(chat) - 1] = AssistantTurn(round - 1)
    /\ pc = "awaitModel" => /\ request = chat
                            /\ nRequests = round + 1 /\ nDispatch = round
    /\ pc = "dispatch" => /\ chat = Append(request, AssistantTurn(round))
                          /\ toolCall = parseToolCall(content) /\ toolCall # NoCall
                          /\ nRequests = round + 1 /\ nDispatch = round
    /\ pc \in ClickByLabelPcs \cup {"append"} =>
                          /\ chat = Append(request, AssistantTurn(round))
                          /\ nRequests = round + 1 /\ nDispatch = round + 1

\* C3: in every round the model is called with the whole transcript, its response
\* is appended as an assistant turn and parsed, and for a parsed action executeTool
\* is called once and then one user turn with the result, and with the image when
\* there is one, is appended before the next model call.
C3_RoundOrder ==
    /\ []C3_RoundShape
    /\ [][(pc = "append" /\ pc' # pc)
            => (/\ pc' = "loop"
                /\ chat' = Append(chat, Turn("user", "Tool result", round,
                                             toolResult.image)))]_vars
    /\ [][(pc = "loop" /\ pc' = "awaitModel") => request' = chat]_vars

C3_Witness ==
    /\ pc = "awaitModel" /\ round = 2
    /\ chat[4].role = "user" /\ chat[4].image
    /\ chat[6].role = "user" /\ ~chat[6].image

\* C4: whatever action was parsed, executeTool returns a result and the loop goes
\* on; a run is aborted in a dispatch only when the browser itself has failed.
C4_AbortOnlyOnBrowserFailure ==
    (exitPath = "error" /\ error # "ModelError") => ~browserAlive

\* a scroll action with an unknown direction aborts the run, the browser running
C4_Failure ==
    /\ pc = "finally" /\ exitPath = "error" /\ error = "ZodError" /\ browserAlive
    /\ toolCall.tool = "scroll" /\ toolCall.args["direction"] = Str("sideways")
    /\ ops = <<>>

\* C5: once the loop has been entered the browser is closed on every exit path, and
\* after the close there is no model request and no dispatch.
C5_BrowserAlwaysClosed ==
    /\ [](pc = "exited" => browserClosed)
    /\ [](exitPath # "running" => Ended)
    /\ [][browserClosed => (/\ nRequests' = nRequests /\ nDispatch' = nDispatch
                            /\ ops' = ops /\ browserClosed')]_vars

C5_Witness ==
    /\ pc = "exited" /\ browserClosed
    /\ exitPath = "error" /\ error = "ZodError" /\ round = 1

\* C6: when a new tab opens within the wait of a clickByLabel on a link, the result
\* carries the new page, the loop makes it the active page, and in every later
\* round every browser operation goes to that page (or to a tab the round's own
\* click has just opened), never to an older page.
C6_HandoffSwitchesPage ==
    /\ (pc = "append" /\ cbl.newPage # NoPage)
        => /\ handoff = [page |-> cbl.newPage, old |-> ops[1].page, round |-> round]
           /\ page = cbl.newPage
           /\ page # handoff.old
    /\ (handoff.page # NoPage /\ round > handoff.round)
        => /\ pc \notin {"cbl_newtab"} => page = handoff.page
           /\ \A i \in DOMAIN ops :
                \/ ops[i].page = handoff.page
                \/ /\ cbl.newPage # NoPage
                   /\ ops[i].page = cbl.newPage
                   /\ ops[i].op \in {"waitForLoadState", "wait", "bringToFront", "detect"}

C6_Witness ==
    /\ pc = "append" /\ handoff.page = 1 /\ round = handoff.round + 1
    /\ toolCall.tool = "keyboard" /\ ops[1] = Op("keyboard.type", 1, "ok")

\* C7: after every dispatch whose result carries an element list,
\* lastDetectedElements is the list of that result, and at the next clickByLabel
\* every label of the list shown last resolves to the element shown with it.
C7_LastDetectedIsShown ==
    /\ (pc = "append" /\ toolResult.listed)
        => /\ toolResult.elementList = formatElementList(lastDetectedElements)
           /\ shown = toolResult.elementList
    /\ (pc = "dispatch" /\ toolCall.tool = "clickByLabel")
        => \A i \in DOMAIN shown :
              LET el == Find(lastDetectedElements, shown[i].label)
              IN  /\ el # NoElement
                  /\ el.label = shown[i].label
                  /\ el.type = shown[i].type

\* a navigate found its elements and stored them, the upload of its image failed
\* and the result is 'Navigation failed'; the label 1 the model was shown for a
\* link is now a button
C7_Failure ==
    /\ pc = "dispatch" /\ toolCall.tool = "clickByLabel"
    /\ toolCall.args["label"] = Num(1)
    /\ Len(shown) = 1 /\ shown[1].label = 1 /\ shown[1].type = "link"
    /\ Find(lastDetectedElements, 1).type = "button"
    /\ ~Last(chat).image

\* C8: clickByLabel with a number that is no label of lastDetectedElements (the
\* browser running) clicks nothing, runs a fresh pass, stores it, returns the
\* message listing the labels of that pass, carries no new page and does not throw.
C8_UnknownLabelHandled ==
    [][(/\ pc = "dispatch" /\ pc' # pc /\ browserAlive
        /\ toolCall.tool = "clickByLabel"
        /\ IsNumber(toolCall.args["label"])
        /\ Find(lastDetectedElements, toolCall.args["label"].n) = NoElement)
        => (/\ pc' = "append"
            /\ error' = "none"
            /\ Len(ops') = 1 /\ ops'[1].op = "detect" /\ ops'[1].out = "ok"
            /\ toolResult'.head = "Element with label not found. Available labels: "
            /\ toolResult'.labels =
                  [i \in 1..Len(lastDetectedElements') |-> lastDetectedElements'[i].label]
            /\ toolResult'.elementList = formatElementList(lastDetectedElements')
            /\ page' = page /\ handoff' = handoff)]_vars

\* label 99 is looked up while the page navigates: the only pass throws, and so
\* does clickByLabel
C8_Failure ==
    /\ pc = "finally" /\ exitPath = "error" /\ error = "ContextDestroyed"
    /\ browserAlive
    /\ toolCall.tool = "clickByLabel" /\ toolCall.args["label"] = Num(99)
    /\ ops = <<Op("detect", page, "ContextDestroyed")>>

\* C9: a tool name that is no case of the switch gets the result
\* "Unknown tool: <name>" without an image, touches nothing in the browser, does
\* not throw, and the loop goes on to the next round.
C9_UnknownTool ==
    /\ [][(pc = "dispatch" /\ pc' # pc /\ toolCall.tool \notin HandledTools)
            => (/\ pc' = "append"
                /\ toolResult' = [NoResult EXCEPT !.head = "Unknown tool: ",
                                                  !.detail = toolCall.tool]
                /\ ops' = <<>>
                /\ error' = error /\ exitPath' = exitPath
                /\ UNCHANGED <<page, lastDetectedElements, numPages, shown>>)]_vars
    /\ [][(pc = "append" /\ pc' # pc) => (pc' = "loop" /\ round' = round + 1)]_vars

C9_Witness ==
    /\ pc = "append" /\ toolCall.tool = "fly" /\ ~browserAlive
    /\ toolResult.head = "Unknown tool: " /\ toolResult.detail = "fly"
    /\ round = 1

\* the detection passes of the current dispatch that came after its mouse click
PassesAfterClick ==
    {i \in DOMAIN ops : /\ ops[i].op = "detect"
                        /\ \E c \in 1..(i - 1) : ops[c].op = "mouse.click"}

\* C10: after a click of clickByLabel, on the current page or on the new tab, a
\* pass that fails is retried: there are at most 3 passes, a failed pass that is not
\* the third is followed by a wait and another pass (unless the browser is gone).
C10_FailedPassRetried ==
    (pc \in {"append", "finally", "exited"} /\ toolCall.tool = "clickByLabel" /\ browserAlive)
        => /\ Cardinality(PassesAfterClick) <= DetectAttempts
           /\ \A i \in PassesAfterClick :
                ops[i].out # "ok" =>
                    \/ Cardinality({j \in PassesAfterClick : j <= i}) = DetectAttempts
                    \/ /\ i + 2 \in PassesAfterClick
                       /\ ops[i + 1].op = "wait"

\* the click opened a new tab and the one pass on it failed: no wait, no second pass
C10_Failure ==
    /\ pc = "finally" /\ exitPath = "error" /\ error = "ContextDestroyed"
    /\ browserAlive
    /\ toolCall.tool = "clickByLabel" /\ cbl.clicked /\ cbl.newPage # NoPage
    /\ Cardinality(PassesAfterClick) = 1
    /\ Last(ops) = Op("detect", cbl.newPage, "ContextDestroyed")

\* C11: when every pass after a clickByLabel click has failed (the browser
\* running), the dispatch still returns: the failure is a textual result that
\* becomes a user turn, and the loop goes on.
C11_ExhaustedRetriesSurfaced ==
    [][(/\ pc = "cbl_detect" /\ pc' # pc /\ browserAlive
        /\ cbl.retry = DetectAttempts - 1
        /\ Last(ops').op = "detect" /\ Last(ops').out # "ok")
        => (pc' = "append" /\ error' = "none" /\ toolResult'.head # "")]_vars

\* three passes on a navigating page have failed: clickByLabel throws, the run ends
C11_Failure ==
    /\ pc = "exited" /\ exitPath = "error" /\ browserAlive
    /\ error = "Failed to take screenshot after clicking"
    /\ Cardinality(PassesAfterClick) = DetectAttempts
    /\ Last(chat).role = "assistant"

\* the load of the navigate action of this dispatch failed: a bad URL, a timeout or
\* a navigation error
LoadFailed ==
    \/ ~(IsString(toolCall.args["url"]) /\ toolCall.args["url"].s \in ValidUrls)
    \/ /\ Len(ops) >= 1 /\ ops[1].op = "goto"
       /\ ops[1].out \in {"Timeout", "issue"}

\* C12: a navigate action whose load fails (the browser running) still returns a
\* result with a capture and a degraded message, and never ends the run.
C12_FailedLoadStillCaptures ==
    /\ (toolCall.tool = "navigate" /\ browserAlive) => exitPath # "error"
    /\ (pc = "append" /\ toolCall.tool = "navigate" /\ browserAlive /\ LoadFailed)
        => /\ toolResult.image
           /\ toolResult.head \in {"Navigation timed out after 3s",
                                   "Navigation had an issue"}

\* a navigate action with a bad URL gets a text and no capture
C12_Failure ==
    /\ pc = "append" /\ toolCall.tool = "navigate" /\ browserAlive
    /\ toolCall.args["url"] = Str("not a url")
    /\ ops = <<>>
    /\ toolResult.head = "Navigation failed: " /\ ~toolResult.image

\* a clickByLabel on a link has clicked and returned
LinkClickReturned ==
    /\ pc = "append" /\ toolCall.tool = "clickByLabel"
    /\ cbl.armed /\ cbl.clicked

\* the result of the current-page path: 'Clicked element', detection on the
\* current page, no new page
NormalClickResult ==
    /\ toolResult.head = "Clicked element"
    /\ toolResult.image
    /\ page = ops[1].page
    /\ \A i \in DOMAIN ops : ops[i].page = page
    /\ Last(ops) = Op("detect", page, "ok")
    /\ handoff.page # NoPage => handoff.round # round

C14_OneInFlight ==
    LET requests == nRequests - nResponses
        dispatches == nDispatch - nSettled
    IN  /\ requests \in {0, 1}
        /\ dispatches \in {0, 1}
        /\ requests + dispatches <= 1

\* a clickByLabel is in flight in the third round, every model request answered
C14_Witness ==
    /\ pc = "cbl_await" /\ round = 2
    /\ nDispatch - nSettled = 1
    /\ nRequests = 3 /\ nResponses = 3

\* C15: the transcript only grows: every step keeps the turns there are, in place,
\* and the transcript starts with the system turn and the user's task.
C15_TranscriptAppendOnly ==
    /\ [][/\ Len(chat') >= Len(chat)
          /\ SubSeq(chat', 1, Len(chat)) = chat]_vars
    /\ [](/\ Len(chat) >= 2
          /\ chat[1] = Turn("system", "systemPrompt", 0, FALSE)
          /\ chat[2] = Turn("user", "prompt", 0, FALSE))

\* a run with a handoff in its second round and a failed dispatch in its third
C15_Witness ==
    /\ pc = "exited" /\ exitPath = "error" /\ error = "ZodError"
    /\ handoff.page # NoPage /\ handoff.round = 1
    /\ Len(chat) = 7
    /\ chat[4].role = "user" /\ chat[6].role = "user" /\ chat[7].role = "assistant"

\* the elements a pass kept, before they are sorted
Kept == forEachElement(dom, Len(dom))

\* C16: the labels of a pass are 1..N in output order, and N is at most 30.
C16_LabelsContiguous ==
    dpc = "done"
        => /\ Len(detected) <= 30
           /\ \A i \in DOMAIN detected : detected[i].label = i

\* a page of 32 buttons: 30 are returned
C16_Witness ==
    /\ dpc = "done" /\ Len(dom) = 32 /\ Len(Kept) = 32
    /\ Len(detected) = 30 /\ detected[30].label = 30

\* the bounding box of a matched element lies in the viewport
InViewport(el) ==
    /\ el.left >= 0 /\ el.top >= 0
    /\ el.left + el.width <= Px(Viewport)
    /\ el.top + el.height <= Px(Viewport)

\* C17: every element a pass returns is at least 10 wide and 10 high and lies in
\* the viewport, and a visible element of exactly 10 by 10 in the viewport is
\* returned (when the pass has no more than 30 elements).
C17_SmallAndOutsideDropped ==
    dpc = "done"
        => /\ \A i \in DOMAIN detected :
                LET el == dom[detected[i].src]
                IN  /\ el.width >= Px(10) /\ el.height >= Px(10)
                    /\ detected[i].width >= 10 /\ detected[i].height >= 10
                    /\ InViewport(el)
                    /\ detected[i].x >= 0 /\ detected[i].y >= 0
           /\ \A j \in DOMAIN dom :
                (/\ dom[j].width = Px(10) /\ dom[j].height = Px(10)
                 /\ InViewport(dom[j]) /\ ~dom[j].hidden
                 /\ Len(dom) <= 30)
                    => \E i \in DOMAIN detected : detected[i].src = j

\* a textarea 9.5 wide is dropped, a link of exactly 10 by 10 and a checkbox that
\* touches the corner of the viewport are returned
C17_Witness ==
    /\ dpc = "done" /\ Len(dom) = 3
    /\ dom[1].tag = "textarea" /\ dom[1].width = Px(10) - 1
    /\ dom[2].tag = "a" /\ dom[2].width = Px(10) /\ dom[2].height = Px(10)
    /\ dom[3].inputType = "checkbox" /\ dom[3].left + dom[3].width = Px(Viewport)
    /\ Len(detected) = 2 /\ detected[1].src = 2 /\ detected[2].src = 3

\* the pairwise order of the output: 20 or more apart in y, the smaller y first;
\* less than 20 apart, the smaller x first
PairwiseOrdered ==
    \A i, j \in DOMAIN detected :
        LET a == detected[i]
            b == detected[j]
        IN  /\ (Abs(a.y - b.y) >= 20 /\ a.y < b.y) => i < j
            /\ (Abs(a.y - b.y) < 20 /\ a.x < b.x) => i < j

\* being less than 20 apart in y is transitive among the elements the pass kept
RowsTransitive ==
    \A a, b, c \in {Kept[i].y : i \in DOMAIN Kept} :
        (Abs(a - b) < 20 /\ Abs(b - c) < 20) => Abs(a - c) < 20

\* C18 as stated: the output of every pass is pairwise ordered, for any number of
\* elements.
C18_PairwiseOrder ==
    dpc = "done" => PairwiseOrdered

\* C18 amended: the output of a pass is pairwise ordered when being less than 20
\* apart in y is transitive among its elements, which it is for any two elements
\* but not for every three.
C18_PairwiseOrderInRows ==
    (dpc = "done" /\ RowsTransitive) => PairwiseOrdered

\* three elements in two rows come out in the reverse of their document order
C18_Witness ==
    /\ dpc = "done" /\ RowsTransitive
    /\ Len(detected) = 3
    /\ detected[1].src = 3 /\ detected[2].src = 2 /\ detected[3].src = 1
    /\ detected[1].y = detected[2].y /\ detected[3].y >= detected[1].y + 20

\* C19: the text of an element is the trimmed source text cut to 50 characters,
\* with the ellipsis appended exactly when the source text was longer than that.
C19_EllipsisIffTruncated ==
    dpc = "done"
        => \A i \in DOMAIN detected :
              LET source == Trim(dom[detected[i].src].text)
              IN  detected[i].text =
                     IF Len(source) > 50
                     THEN SubSeq(source, 1, 50) \o <<".", ".", ".">>
                     ELSE source

\* a source text of exactly 50 characters comes out with the ellipsis
C19_Failure ==
    /\ dpc = "done" /\ Len(detected) = 1
    /\ Len(Trim(dom[1].text)) = 50
    /\ Len(detected[1].text) = 53
    /\ detected[1].text[53] = "."

\* the tags with a kind of their own
OwnKindTags == {"a", "input", "button", "textarea", "select"}

\* C20: an anchor is a link, an input carries its subtype, a button, a textarea and
\* a select have their own kind, and every other matched element has one and the
\* same catch-all kind, which is none of those.
C20_KindsClosed ==
    dpc = "done"
        => \A i, j \in DOMAIN detected :
              LET el == dom[detected[i].src]
                  other == dom[detected[j].src]
              IN  /\ el.tag = "a" => detected[i].type = "link"
                  /\ el.tag = "input" => detected[i].type = "input[" \o el.inputType \o "]"
                  /\ el.tag \in {"button", "textarea", "select"}
                        => detected[i].type = el.tag
                  /\ (el.tag \notin OwnKindTags /\ other.tag \notin OwnKindTags)
                        => detected[i].type = detected[j].type

\* a div and a span of one pass come out with two kinds, their tag names
C20_Failure ==
    /\ dpc = "done" /\ Len(detected) = 2
    /\ detected[1].type = "div" /\ detected[2].type = "span"

\* C21: the color of an element is decided by its kind alone: blue for a link,
\* green for every input kind, a textarea and a select, orange for a button and
\* purple for every other kind; the outline and the label circle of one element
\* have the same color.
C21_ColorByKind ==
    (fn = "overlay" /\ fpc = "done")
        => /\ fout.rect.stroke =
                 IF fin.tag = "a" THEN "#3B82F6"
                 ELSE IF fin.tag \in {"input", "textarea", "select"} THEN "#22C55E"
                 ELSE IF fin.tag = "button" THEN "#F97316"
                 ELSE "#A855F7"
           /\ fout.circle.fill = fout.rect.stroke

\* a button was drawn in orange
C21_Witness ==
    /\ fn = "overlay" /\ fpc = "done"
    /\ fin.tag = "button"
    /\ fout.rect.stroke = "#F97316" /\ fout.circle.fill = "#F97316"

IsProse(seg) == seg.k \in {"prose", "braces"}

\* C23: with any prose before and after the object
\* {"tool":"navigate","args":{"url":"https://x"}}, parseToolCall returns the tool
\* navigate with the url https://x.
C23_NavigateRoundTrip ==
    (/\ fn = "parseToolCall" /\ fpc = "done"
     /\ \E i \in DOMAIN fin :
           /\ fin[i] = NavigateObject
           /\ \A j \in DOMAIN fin \ {i} : IsProse(fin[j]))
        => /\ fout.tool = "navigate"
           /\ fout.args["url"] = Str("https://x")
           /\ \A a \in ArgNames \ {"url"} : fout.args[a] = Undef

\* the object stood between prose with a brace and prose without, and was returned
C23_Witness ==
    /\ fn = "parseToolCall" /\ fpc = "done"
    /\ fin = <<Braces, NavigateObject, Prose>>
    /\ fout = [tool |-> "navigate", args |-> Args1("url", Str("https://x"))]

\* C24: parseToolCall returns null for a text that holds no object; what it
\* returns otherwise comes from an object of the text that is valid JSON and whose
\* tool is a non-empty string, and the args returned for an object without args or
\* with empty args is the empty mapping.
C24_OnlyValidActions ==
    (fn = "parseToolCall" /\ fpc = "done")
        => /\ (\A i \in DOMAIN fin : IsProse(fin[i])) => fout = NoCall
           /\ fout # NoCall
                 => \E i \in DOMAIN fin :
                       /\ fin[i].k = "object" /\ fin[i].valid
                       /\ IsString(fin[i].parsed.tool) /\ fin[i].parsed.tool.s # ""
                       /\ fout.tool = fin[i].parsed.tool.s
                       /\ (~fin[i].parsed.truthy \/ fin[i].parsed.args = NoArgs)
                             => fout.args = NoArgs

\* an object without args gave the empty mapping, and the text before it, which
\* does not parse, gave nothing
C24_Witness ==
    /\ fn = "parseToolCall" /\ fpc = "done"
    /\ fin = <<Malformed(ObjNoArgs(Str("reload"))), Prose>>
    /\ fout = NoCall
    /\ parseToolCall(<<Prose, ObjNoArgs(Str("reload"))>>) = [tool |-> "reload", args |-> NoArgs]
    /\ parseToolCall(<<Prose, Braces>>) = NoCall

\* the objects of a text that are well-formed actions
WellFormed(text) ==
    {i \in DOMAIN text :
        /\ text[i].k = "object" /\ text[i].valid
        /\ text[i].parsed.tool = text[i].tool
        /\ IsString(text[i].tool) /\ text[i].tool.s # ""}

\* C25: of several well-formed action objects in one response, parseToolCall
\* returns the one that comes first in the text, with or without args.
C25_FirstObjectWins ==
    (fn = "parseToolCall" /\ fpc = "done" /\ WellFormed(fin) # {})
        => LET first == CHOOSE i \in WellFormed(fin) : \A j \in WellFormed(fin) : i <= j
           IN  /\ fout.tool = fin[first].tool.s
               /\ fout.args = fin[first].args

\* {"tool":"reload"} before the navigate object: navigate is returned
C25_Failure ==
    /\ fn = "parseToolCall" /\ fpc = "done"
    /\ fin = <<ObjNoArgs(Str("reload")), NavigateObject>>
    /\ fout.tool = "navigate"

\* the coordinates of the click action of the round
ClickAt == <<toolCall.args["x"].n, toolCall.args["y"].n>>

\* C26: a click action with coordinates (x, y) clicks at (x, y), reports the
\* coordinates in its result, and the image of the result is the capture with the
\* click indicator centered at (x, y).
C26_IndicatorReturned ==
    (pc = "append" /\ toolCall.tool = "click")
        => /\ ops[1] = OpArg("mouse.click", page, "ok", ClickAt)
           /\ toolResult.head = "Clicked at coordinates"
           /\ toolResult.at = ClickAt
           /\ toolResult.image
           /\ toolResult.capture = "indicator"

\* the capture with the indicator was taken at (448, 300), and the result carries
\* the labeled capture
C26_Failure ==
    /\ pc = "append" /\ toolCall.tool = "click"
    /\ ClickAt = <<448, 300>>
    /\ ops[1] = OpArg("mouse.click", page, "ok", ClickAt)
    /\ ops[3] = OpArg("screenshot", page, "ok", ClickAt)
    /\ toolResult.image /\ toolResult.capture = "labeled" /\ toolResult.listed

\* the dispatch of the round has settled, by a return or by an exception
DispatchSettled ==
    /\ pc \in {"append", "finally"}
    /\ nSettled = nDispatch
    /\ error # "ModelError"

\* C27: a keyboard or press action (the browser running) first sends the input to
\* the active page and is then followed in its round by a labeled capture that
\* succeeds: its image and list are the result, and its elements are
\* lastDetectedElements.
C27_KeysThenCapture ==
    (DispatchSettled /\ toolCall.tool \in {"keyboard", "press"} /\ browserAlive
     /\ (IsString(toolCall.args["text"]) \/ IsString(toolCall.args["key"])))
        => /\ exitPath # "error"
           /\ Len(ops) = 2
           /\ ops[1] \in {Op("keyboard.type", page, "ok"), Op("keyboard.press", page, "ok")}
           /\ ops[2] = Op("detect", page, "ok")
           /\ toolResult.image /\ toolResult.capture = "labeled" /\ toolResult.listed
           /\ toolResult.elementList = formatElementList(lastDetectedElements)

\* Enter was pressed, the page began to navigate, the one pass failed and the run
\* ended, the browser running
C27_Failure ==
    /\ pc = "finally" /\ exitPath = "error" /\ error = "ContextDestroyed"
    /\ browserAlive
    /\ toolCall.tool = "press" /\ toolCall.args["key"] = Str("Enter")
    /\ ops = <<Op("keyboard.press", page, "ok"), Op("detect", page, "ContextDestroyed")>>

\* C28: scroll turns a direction and an amount a into the pair (0, -a) for up,
\* (0, a) for down, (-a, 0) for left and (a, 0) for right, so that one of the two
\* components is 0; an action without an amount scrolls by 500.
C28_ScrollDelta ==
    (/\ fn = "scroll" /\ fpc = "done"
     /\ fin["direction"].s \in Directions
     /\ (fin["amount"] = Undef \/ IsNumber(fin["amount"])))
        => LET a == IF fin["amount"] = Undef THEN 500 ELSE fin["amount"].n
               d == fin["direction"].s
           IN  /\ fout.thrown = "none"
               /\ d = "up" => fout.delta = <<0, 0 - a>>
               /\ d = "down" => fout.delta = <<0, a>>
               /\ d = "left" => fout.delta = <<0 - a, 0>>
               /\ d = "right" => fout.delta = <<a, 0>>
               /\ fout.delta[1] = 0 \/ fout.delta[2] = 0

\* a scroll to the left without an amount came out as (-500, 0)
C28_Witness ==
    /\ fn = "scroll" /\ fpc = "done"
    /\ fin = Args1("direction", Str("left"))
    /\ fout.delta = <<0 - 500, 0>>

\* C29: a scroll action with a selector scrolls the element the selector matches
\* and not the window; a scroll action without a selector scrolls the window.
C29_SelectorScrollsElement ==
    (pc = "append" /\ toolCall.tool = "scroll")
        => IF IsString(toolCall.args["selector"])
           THEN /\ ops[1].op \in {"element.scrollBy", "query"}
                /\ \A i \in DOMAIN ops : ops[i].op # "window.scrollBy"
           ELSE ops[1].op = "window.scrollBy"

\* a scroll action with the selector #list has scrolled the window
C29_Failure ==
    /\ pc = "append" /\ toolCall.tool = "scroll"
    /\ toolCall.args["selector"] = Str("#list")
    /\ ops[1] = OpArg("window.scrollBy", page, "ok", <<0, 500>>)
    /\ toolResult.head = "Scrolled"

\* C30: the center of the label circle of every element of a pass lies at least 12
\* pixels from the left, the top, the right and the bottom edge of the 896 by 896
\* image.
C30_CircleInsideImage ==
    dpc = "drawn"
        => \A i \in DOMAIN svgParts :
              /\ 12 <= svgParts[i].circle.cx /\ svgParts[i].circle.cx <= 896 - 12
              /\ 12 <= svgParts[i].circle.cy /\ svgParts[i].circle.cy <= 896 - 12

\* an element of 10 by 10 pixels in the bottom right corner of the viewport: the
\* center of its circle is 10 pixels from the right and the bottom edge
C30_Failure ==
    /\ dpc = "drawn" /\ Len(svgParts) = 1
    /\ svgParts[1].rect.x + svgParts[1].rect.width = 896
    /\ svgParts[1].rect.y + svgParts[1].rect.height = 896
    /\ svgParts[1].circle.cx = 886 /\ svgParts[1].circle.cy = 886

\* C31: the active page changes only when a clickByLabel returns a new page, and
\* then to that page; every other dispatch, and a clickByLabel that returns no new
\* page, leaves it as it is.
C31_PageChangesOnlyByHandoff ==
    [][page' # page
          => /\ toolCall.tool = "clickByLabel"
             /\ pc = "cbl_newtab"
             /\ cbl.newPage # NoPage /\ page' = cbl.newPage
             /\ handoff' = [page |-> page', old |-> page, round |-> round]]_vars

\* a round after the handoff to page 1 a clickByLabel has returned no new page, and
\* the active page is still page 1
C31_Witness ==
    /\ pc = "append" /\ toolCall.tool = "clickByLabel"
    /\ cbl.clicked /\ cbl.newPage = NoPage
    /\ handoff.page = 1 /\ round > handoff.round
    /\ page = 1

\* a clickByLabel has clicked an element of the kind link, or of another kind
LinkClicked == toolCall.tool = "clickByLabel" /\ cbl.clicked /\ cbl.element.type = "link"
OtherClicked == toolCall.tool = "clickByLabel" /\ cbl.clicked /\ cbl.element.type # "link"

\* C34: in a clickByLabel on a link the wait for a new tab and the wait for a
\* navigation are both armed before the click, the two waits are pending when the
\* click has been made, and a tab that opens or a navigation that starts while they
\* are pending is observed by its wait and decides how clickByLabel goes on.
C34_WaitsArmedBeforeClick ==
    [][/\ LinkClicked'
          => /\ Len(ops') >= 3
             /\ ops'[1].op = "waitForEvent" /\ ops'[1].out = "armed"
             /\ ops'[2].op = "waitForNavigation" /\ ops'[2].out = "armed"
             /\ ops'[3].op = "mouse.click"
             /\ \A i \in DOMAIN ops' : ops'[i].op = "mouse.click" => i = 3
       /\ (LinkClicked' /\ ~cbl.clicked /\ browserAlive) => pc' = "cbl_await"
       /\ (LinkClicked /\ pc = "cbl_await" /\ ~cbl.opened /\ cbl'.opened)
          => cbl'.newPage # NoPage
       /\ (LinkClicked /\ pc = "cbl_await" /\ ~cbl.navigated /\ cbl'.navigated)
          => cbl'.navigationResult
       /\ (LinkClicked /\ pc = "cbl_await" /\ pc' # "cbl_await")
          => pc' = IF cbl.newPage # NoPage THEN "cbl_newtab" ELSE "cbl_settle"]_vars

\* the tab opened after the click on the link, was observed, and clickByLabel
\* returned it
C34_Witness ==
    /\ pc = "append" /\ LinkClicked
    /\ ops[1] = Op("waitForEvent", 0, "armed") /\ ops[3] = Op("mouse.click", 0, "ok")
    /\ cbl.events = <<"page">> /\ cbl.newPage = 1
    /\ page = 1

\* C35: when in a clickByLabel on a link both waits have observed their event, a
\* new tab and a navigation of the current page, in either order, the new tab
\* wins: passes are made on the new page only, and a result carries the new page
\* and its elements, which are lastDetectedElements.
C35_NewTabWins ==
    (/\ LinkClicked /\ cbl.newPage # NoPage /\ cbl.navigationResult
     /\ pc \in {"append", "finally"} /\ nSettled = nDispatch /\ error # "ModelError"
     /\ browserAlive)
        => /\ \E i \in DOMAIN ops : ops[i].op = "detect"
           /\ \A i \in DOMAIN ops : ops[i].op = "detect" => ops[i].page = cbl.newPage
           /\ pc = "append"
                 => /\ page = cbl.newPage
                    /\ handoff = [page |-> cbl.newPage, old |-> ops[1].page, round |-> round]
                    /\ toolResult.head = "Clicked element - opened in new tab"
                    /\ toolResult.listed /\ toolResult.image
                    /\ toolResult.elementList = formatElementList(lastDetectedElements)
                    /\ Last(ops) = Op("detect", cbl.newPage, "ok")

\* the page navigated first and the tab opened second, and the new page was
\* returned with a link on it
C35_Witness ==
    /\ pc = "append" /\ LinkClicked
    /\ cbl.events = <<"navigation", "page">>
    /\ cbl.newPage = 1 /\ cbl.navigationResult
    /\ page = 1 /\ handoff.page = 1
    /\ Len(lastDetectedElements) = 1 /\ lastDetectedElements[1].type = "link"
    /\ Last(ops) = Op("detect", 1, "ok")

\* C36: a clickByLabel on an element that is not a link never returns a new page,
\* also when its click opens a tab: the active page stays the one that was clicked
\* on, and the passes are made on it.
C36_NoHandoffForNonLinks ==
    OtherClicked
        => /\ cbl.newPage = NoPage
           /\ pc \notin {"cbl_await", "cbl_newtab"}
           /\ page = ops[1].page
           /\ \A i \in DOMAIN ops : ops[i].page = page
           /\ handoff.page # NoPage => handoff.round # round

\* the click on a button opened a tab, and clickByLabel returned from a pass on the
\* page of the button
C36_Witness ==
    /\ pc = "append" /\ OtherClicked
    /\ cbl.element.type = "button"
    /\ cbl.events = <<"page">> /\ numPages = 2
    /\ page = 0 /\ cbl.newPage = NoPage
    /\ toolResult.head = "Clicked element"
    /\ Last(ops) = Op("detect", 0, "ok")

\* the dispatches that show the model no element list
Quiet(tool, result) ==
    \/ tool \in {"screenshot", "getContents", "type"}
    \/ tool \notin HandledTools
    \/ tool = "navigate" /\ result.head = "Navigation failed: "

\* C37: a dispatch of screenshot, getContents, type or an unknown tool, and a
\* navigate that ends in its catch block, leaves lastDetectedElements as it was, so
\* that the list shown last still resolves as before.
C37_QuietDispatchesKeepElements ==
    [][(pc = "dispatch" /\ pc' = "append" /\ Quiet(toolCall.tool, toolResult'))
          => /\ lastDetectedElements' = lastDetectedElements
             /\ shown' = shown]_vars

\* a navigate has stored the elements of its pass, the upload of the image was
\* rejected, and the result is 'Navigation failed' without a list: what is stored
\* is no longer what was shown
C37_Failure ==
    /\ pc = "append" /\ toolCall.tool = "navigate"
    /\ toolResult.head = "Navigation failed: " /\ toolResult.detail = "UploadError"
    /\ ~toolResult.listed
    /\ Last(ops) = Op("detect", page, "ok")
    /\ Len(shown) = 1 /\ shown[1].type = "link"
    /\ Len(lastDetectedElements) = 1 /\ lastDetectedElements[1].type = "button"

\* C32: a getContents, scroll or type action with a selector has the selector
\* looked up first, and when no element matches it the result is 'No element found
\* matching selector: ' with the selector, nothing is scrolled or typed, nothing is
\* thrown and the loop goes on.
C32_SelectorNotFound ==
    (/\ DispatchSettled /\ browserAlive /\ ~navigating /\ error # "UploadError"
     /\ toolCall.tool \in {"getContents", "scroll", "type"}
     /\ IsString(toolCall.args["selector"])
     /\ toolCall.tool = "type" => IsString(toolCall.args["text"]))
        => /\ pc = "append"
           /\ ops[1].op = "query"
           /\ ops[1].out = "null"
                 => /\ toolResult.head = "No element found matching selector: "
                    /\ Len(ops) = 1 \/ (Len(ops) = 2 /\ ops[2].op = "detect")

\* a scroll action with the selector #list has returned 'Scrolled': the selector
\* was not looked up and the window was scrolled
C32_Failure ==
    /\ pc = "append" /\ toolCall.tool = "scroll" /\ browserAlive /\ ~navigating
    /\ toolCall.args["selector"] = Str("#list")
    /\ \A i \in DOMAIN ops : ops[i].op # "query"
    /\ ops[1].op = "window.scrollBy"
    /\ toolResult.head = "Scrolled" /\ toolResult.listed

\* the color a hexadecimal color of the image is
ColorClass(hex) ==
    IF hex = "#3B82F6" THEN "blue"
    ELSE IF hex = "#22C55E" THEN "green"
    ELSE IF hex = "#F97316" THEN "orange"
    ELSE IF hex = "#A855F7" THEN "purple"
    ELSE "none"

\* C39: for an element of any kind, the color indicator of its line in the element
\* list is the color its outline and its circle have in the labeled image: blue,
\* green, orange or purple in both.
C39_ListAndImageAgree ==
    (fn = "formatElementList" /\ fpc = "done")
        => /\ fout.line.color \in {"blue", "green", "orange", "purple"}
           /\ fout.line.color = ColorClass(fout.drawn.circle.fill)
           /\ fout.line.color = ColorClass(fout.drawn.rect.stroke)

\* a checkbox is green in the list and in the image
C39_Witness ==
    /\ fn = "formatElementList" /\ fpc = "done"
    /\ fin.tag = "input" /\ fin.inputType = "checkbox"
    /\ fout.line.type = "input[checkbox]"
    /\ fout.line.color = "green" /\ fout.drawn.circle.fill = "#22C55E"

\* C33: started without the prompt argument, the process prints the usage message
\* and exits with a status that is not 0, and it has then created no model client,
\* launched no browser and made no model request.
C33_UsageBeforeAnything ==
    argv = Undef
        => /\ pc \in {"start", "usage"}
           /\ nRequests = 0 /\ nDispatch = 0 /\ ops = <<>>
           /\ \A i \in DOMAIN boot : boot[i] = "usage"
           /\ pc = "usage" => (boot = <<"usage">> /\ exitCode # <<>> /\ exitCode[1] # 0)
           /\ pc = "start" => (boot = <<>> /\ exitCode = <<>>)

\* the process has ended with the usage message and status 1
C33_Witness ==
    /\ argv = Undef /\ pc = "usage"
    /\ boot = <<"usage">> /\ exitCode = <<1>>
    /\ nRequests = 0

\* C38: when every model request and every browser operation eventually returns or
\* times out, the run eventually ends, by the final answer, the round bound or the
\* abort, and browser.close() is eventually called.
C38_RunEndsAndBrowserCloses ==
    <>(/\ pc = "exited"
       /\ exitPath \in {"final", "bound", "error"}
       /\ browserClosed)

\* a run that was aborted after the click of clickByLabel, in the retry loop, has
\* ended and closed the browser
C38_Witness ==
    /\ pc = "exited" /\ browserClosed /\ exitPath = "error"
    /\ cbl.clicked /\ cbl.armed /\ cbl.retry = DetectAttempts - 1

====
